---- MODULE Spec2Model ----
(***************************************************************************)
(* The association matching engine of jwst.associations: the Association   *)
(* base class (association.py) and the Level2b rule variants                *)
(* (lib/rules_level2b.py) that drive it.                                    *)
(*                                                                          *)
(* Python values are modelled as strings; None is the string "None", a      *)
(* key that an item does not carry is Absent.  A regular expression is      *)
(* modelled by the language it accepts (see Pattern).                       *)
(***************************************************************************)
EXTENDS Integers, Sequences, FiniteSets, TLC

None == "None"

Absent == "<absent>"

\* ------------------------------------------------------------------------
\* Bounds of the model
\* ------------------------------------------------------------------------

\* Number of member entries a document may hold before add is no longer offered.
MaxMembers == 3

\* ------------------------------------------------------------------------
\* Items: one exposure's metadata, a mapping attribute -> value
\* ------------------------------------------------------------------------

Item(id, program, instrume, exp_type, patttype, patt_num, tsovisit, expname) ==
    [id |-> id, program |-> program, instrume |-> instrume, exp_type |-> exp_type,
     patttype |-> patttype, patt_num |-> patt_num, tsovisit |-> tsovisit,
     expname |-> expname, mostilno |-> Absent, grating |-> Absent, opmode |-> Absent,
     dms_note |-> Absent, visitype |-> Absent, bkgdtarg |-> Absent, targetid |-> Absent,
     detector |-> Absent, asn_candidate |-> Absent]

\* The item with one more attribute
With(item, attribute, value) == [item EXCEPT ![attribute] = value]

\* NIRSpec IFU nods: two of a 2-point nod, one of a 4-point nod
IFUItems ==
    { With(Item(8, "p1", "nirspec", "nrs_ifu", "2-point-nod", "1", Absent, "jw_8.fits"),
           "mostilno", "1"),
      With(Item(9, "p1", "nirspec", "nrs_ifu", "4-point-nod", "1", Absent, "jw_9.fits"),
           "mostilno", "1"),
      With(Item(10, "p1", "nirspec", "nrs_ifu", "2-point-nod", "2", Absent, "jw_10.fits"),
           "mostilno", "1"),
      With(Item(11, "p1", "nirspec", "nrs_ifu", "2-point-nod", "2", Absent, "jw_11.fits"),
           "mostilno", "2") }

\* NIRSpec lamp images: with opmode, without opmode, with another opmode,
\* without grating
LampItems ==
    { With(With(Item(12, "p1", "nirspec", "nrs_lamp", Absent, Absent, Absent, "jw_12.fits"),
                "grating", "mirror"), "opmode", "image"),
      With(Item(13, "p1", "nirspec", "nrs_lamp", Absent, Absent, Absent, "jw_13.fits"),
           "grating", "mirror"),
      With(With(Item(14, "p1", "nirspec", "nrs_lamp", Absent, Absent, Absent, "jw_14.fits"),
                "grating", "mirror"), "opmode", "grating-only"),
      With(Item(15, "p1", "nirspec", "nrs_lamp", Absent, Absent, Absent, "jw_15.fits"),
           "opmode", "image") }

\* NIRCam and FGS images of wavefront sensing visits, with and without the
\* line-of-sight jitter note, and an image of a background target
ImageItems ==
    { With(With(Item(16, "p1", "nircam", "nrc_image", Absent, Absent, Absent, "jw_16.fits"),
                "visitype", "prime_wfsc_sensing_control"), "dms_note", "wfsc_los_jitter"),
      With(Item(17, "p1", "nircam", "nrc_image", Absent, Absent, Absent, "jw_17.fits"),
           "visitype", "prime_wfsc_sensing_control"),
      With(With(Item(18, "p1", "fgs", "fgs_image", Absent, Absent, Absent, "jw_18.fits"),
                "visitype", "prime_wfsc_sensing_control"), "dms_note", "wfsc_los_jitter"),
      With(Item(19, "p1", "nircam", "nrc_image", Absent, Absent, "f", "jw_19.fits"),
           "bkgdtarg", "t") }

\* An exposure of a NIRCam WFSS observation taken as a pure parallel
WFSSItem(id, exp_type, expname) ==
    With(With(With(Item(id, "p1", "nircam", exp_type, Absent, Absent, Absent, expname),
                   "targetid", "1"), "detector", "nrcalong"),
         "asn_candidate", "[('c1000', 'direct_image')]")

\* The ids of the direct image and of the grism exposure of one WFSS observation
DirectImage == 20

Grism == 21

\* The direct image and the grism exposure of one WFSS observation
WFSSItems ==
    { WFSSItem(DirectImage, "nrc_image", "jw_20.fits"), WFSSItem(Grism, "nrc_wfss", "jw_21.fits") }

Items ==
    IFUItems \cup LampItems \cup ImageItems \cup
    { Item(1, "p1", "miri", "mir_lrs-fixedslit", "along-slit-nod", "1", Absent, "jw_1.fits"),
      Item(2, "p1", "miri", "mir_lrs-fixedslit", "along-slit-nod", "2", Absent, "dir/jw_2.fits"),
      Item(3, "p1", "miri", "mir_lrs-fixedslit", "along-slit-nod", "3", Absent, "jw_3.fits"),
      Item(4, "p1", "miri", "mir_lrs-fixedslit", "along-slit-nod", "1", Absent, "jw_4.fits"),
      Item(5, "p1", "nircam", "nrc_tsimage", Absent, Absent, "t", "jw_5.fits"),
      Item(6, "p1", "nircam", "nrc_image", Absent, Absent, "f", "jw_6.fits"),
      Item(7, "p2", "miri", "mir_lrs-fixedslit", "along-slit-nod", "1", Absent, "jw_7.fits") }

ItemIds == { i.id : i \in Items }

\* ------------------------------------------------------------------------
\* Patterns.  A constraint value is None, a regular expression, or a callable
\* that yields one.  A regular expression is modelled by its kind:
\*   "alt"  an alternation of literals  a|b|c     (alts: the literals)
\*   "esc"  re.escape(v): matches exactly v       (alts: {v})
\*   "not"  "((?!X).)*" with X the value bound to node ref, computed lazily
\*   "val"  a plain Python value of a SimpleConstraint (alts: {value})
\* ------------------------------------------------------------------------

Unbound == [kind |-> "none", alts |-> {}, ref |-> None]

Alt(S) == [kind |-> "alt", alts |-> S, ref |-> None]

Val(v) == [kind |-> "val", alts |-> {v}, ref |-> None]

NotValueOf(nodeName) == [kind |-> "not", alts |-> {}, ref |-> nodeName]

\* re.escape(evaled_str): a pattern that matches the string itself and nothing else
re_escape(evaled_str) == [kind |-> "esc", alts |-> {evaled_str}, ref |-> None]

\* ------------------------------------------------------------------------
\* Rule variants and their constraint trees
\* ------------------------------------------------------------------------

\* Association.DEFAULT_FORCE_UNIQUE
DEFAULT_FORCE_UNIQUE == FALSE

\* Association.DEFAULT_REQUIRE_CONSTRAINT
DEFAULT_REQUIRE_CONSTRAINT == TRUE

\* ListCategory members used by the rules
EXISTING == "EXISTING"

NONSCIENCE == "NONSCIENCE"

NoReprocess == "no-reprocess"

\* A node of a constraint tree.  kind: "attr" (DMSAttrConstraint), "simple"
\* (SimpleConstraint) or the reduce operator of a Constraint.
Node(kind, children, sources, value, required, force_unique, test, reprocess) ==
    [kind |-> kind, children |-> children, sources |-> sources, value |-> value,
     required |-> required, force_unique |-> force_unique, test |-> test,
     reprocess |-> reprocess, only_on_match |-> FALSE]

DMSAttrConstraint(sources, value, force_unique) ==
    Node("attr", <<>>, sources, value, DEFAULT_REQUIRE_CONSTRAINT, force_unique, None,
         NoReprocess)

\* sources: "item" when the SimpleConstraint takes the item itself, otherwise
\* the constant its sources callable returns.
SimpleConstraint(value, sources, test, force_unique, reprocess) ==
    Node("simple", <<>>, <<sources>>, value, DEFAULT_REQUIRE_CONSTRAINT, force_unique, test,
         reprocess)

Constraint(children, reduce) ==
    Node(reduce, children, <<>>, Unbound, DEFAULT_REQUIRE_CONSTRAINT, FALSE, None, NoReprocess)

\* Constraint_Base(): the program every member shares
Constraint_Base == Constraint(<<"program">>, "all")

\* Constraint_Mode(): the instrument configuration every member shares
Constraint_Mode == Constraint(<<"instrument">>, "all")

\* Constraint_Single_Science(has_science, get_exposure_type, ...)
Constraint_Single_Science(reprocess_on_match) ==
    SimpleConstraint(Val("False"), "item", "single_science", FALSE, reprocess_on_match)

\* Mutant of Asn_Lv2MIRLRSFixedSlitNod_constraints: the background branch of
\* the nod constraint comes first
Asn_Lv2MIRLRSFixedSlitNod_constraints_BackgroundFirst ==
    [ root |-> Constraint(<<"base", "mode", "exp_type", "patttype", "acid", "nod">>, "all"),
      base |-> Constraint_Base,
      program |-> DMSAttrConstraint(<<"program">>, Unbound, DEFAULT_FORCE_UNIQUE),
      mode |-> Constraint_Mode,
      instrument |-> DMSAttrConstraint(<<"instrume">>, Unbound, DEFAULT_FORCE_UNIQUE),
      exp_type |-> DMSAttrConstraint(<<"exp_type">>, Alt({"mir_lrs-fixedslit"}),
                                     DEFAULT_FORCE_UNIQUE),
      patttype |-> DMSAttrConstraint(<<"patttype">>, Alt({"along-slit-nod"}),
                                     DEFAULT_FORCE_UNIQUE),
      acid |-> SimpleConstraint(Val("True"), "item", "acid_not_background", FALSE,
                                NoReprocess),
      nod |-> Constraint(<<"nod_background", "nod_science">>, "any"),
      nod_science |-> Constraint(<<"patt_num", "single_science">>, "all"),
      patt_num |-> DMSAttrConstraint(<<"patt_num">>, Unbound, DEFAULT_FORCE_UNIQUE),
      single_science |-> Constraint_Single_Science(EXISTING),
      nod_background |-> Constraint(<<"is_current_patt_num", "force_match">>, "all"),
      is_current_patt_num |-> DMSAttrConstraint(<<"patt_num">>, NotValueOf("patt_num"),
                                                DEFAULT_FORCE_UNIQUE),
      force_match |-> SimpleConstraint(Unbound, "False", "always", TRUE, NoReprocess) ]

Asn_Lv2MIRLRSFixedSlitNod_constraints ==
    [ root |-> Constraint(<<"base", "mode", "exp_type", "patttype", "acid", "nod">>, "all"),
      base |-> Constraint_Base,
      program |-> DMSAttrConstraint(<<"program">>, Unbound, DEFAULT_FORCE_UNIQUE),
      mode |-> Constraint_Mode,
      instrument |-> DMSAttrConstraint(<<"instrume">>, Unbound, DEFAULT_FORCE_UNIQUE),
      exp_type |-> DMSAttrConstraint(<<"exp_type">>, Alt({"mir_lrs-fixedslit"}),
                                     DEFAULT_FORCE_UNIQUE),
      patttype |-> DMSAttrConstraint(<<"patttype">>, Alt({"along-slit-nod"}),
                                     DEFAULT_FORCE_UNIQUE),
      acid |-> SimpleConstraint(Val("True"), "item", "acid_not_background", FALSE,
                                NoReprocess),
      nod |-> Constraint(<<"nod_science", "nod_background">>, "any"),
      nod_science |-> Constraint(<<"patt_num", "single_science">>, "all"),
      patt_num |-> DMSAttrConstraint(<<"patt_num">>, Unbound, DEFAULT_FORCE_UNIQUE),
      single_science |-> Constraint_Single_Science(EXISTING),
      nod_background |-> Constraint(<<"is_current_patt_num", "force_match">>, "all"),
      is_current_patt_num |-> DMSAttrConstraint(<<"patt_num">>, NotValueOf("patt_num"),
                                                DEFAULT_FORCE_UNIQUE),
      force_match |-> SimpleConstraint(Unbound, "False", "always", TRUE, NoReprocess) ]

\* Constraint_Image_Science(): the exposure types that are science images
Constraint_Image_Science ==
    DMSAttrConstraint(<<"exp_type">>, Alt({"fgs_image", "nrc_image", "nrc_tsimage"}),
                      DEFAULT_FORCE_UNIQUE)

\* Constraint_TSO(): the exposure belongs to a time series visit
Constraint_TSO == DMSAttrConstraint(<<"tsovisit">>, Alt({"t"}), DEFAULT_FORCE_UNIQUE)

\* Constraint_Background(): the exposure is of a background target
Constraint_Background == DMSAttrConstraint(<<"bkgdtarg">>, Alt({"t"}), DEFAULT_FORCE_UNIQUE)

\* Constraint_WFSC(): the exposure belongs to a wavefront sensing visit
Constraint_WFSC ==
    DMSAttrConstraint(<<"visitype">>, Alt({"prime_wfsc_sensing_control"}), DEFAULT_FORCE_UNIQUE)

Asn_Lv2Image_constraints ==
    [ root |-> Constraint(<<"base", "mode", "image_science", "not_tso", "background_or_single">>,
                          "all"),
      base |-> Constraint_Base,
      program |-> DMSAttrConstraint(<<"program">>, Unbound, DEFAULT_FORCE_UNIQUE),
      mode |-> Constraint_Mode,
      instrument |-> DMSAttrConstraint(<<"instrume">>, Unbound, DEFAULT_FORCE_UNIQUE),
      image_science |-> Constraint_Image_Science,
      not_tso |-> Constraint(<<"tso">>, "notany"),
      tso |-> Constraint_TSO,
      background_or_single |-> Constraint(<<"background", "single_science">>, "any"),
      background |-> Constraint_Background,
      single_science |-> Constraint_Single_Science(NoReprocess) ]

\* Mutant of Asn_Lv2WFSC_constraints: the last constraint reduces with notany
Asn_Lv2WFSC_constraints_NotAny ==
    [ root |-> Constraint(<<"base", "image_science", "single_science", "wfsc",
                            "not_jitter_image">>, "all"),
      base |-> Constraint_Base,
      program |-> DMSAttrConstraint(<<"program">>, Unbound, DEFAULT_FORCE_UNIQUE),
      image_science |-> Constraint_Image_Science,
      single_science |-> Constraint_Single_Science(NoReprocess),
      wfsc |-> Constraint_WFSC,
      not_jitter_image |-> Constraint(<<"dms_note", "exp_type">>, "notany"),
      dms_note |-> DMSAttrConstraint(<<"dms_note">>, Alt({"wfsc_los_jitter"}),
                                     DEFAULT_FORCE_UNIQUE),
      exp_type |-> DMSAttrConstraint(<<"exp_type">>, Alt({"nrc_image"}), DEFAULT_FORCE_UNIQUE) ]

Asn_Lv2WFSC_constraints ==
    [ root |-> Constraint(<<"base", "image_science", "single_science", "wfsc",
                            "not_jitter_image">>, "all"),
      base |-> Constraint_Base,
      program |-> DMSAttrConstraint(<<"program">>, Unbound, DEFAULT_FORCE_UNIQUE),
      image_science |-> Constraint_Image_Science,
      single_science |-> Constraint_Single_Science(NoReprocess),
      wfsc |-> Constraint_WFSC,
      not_jitter_image |-> Constraint(<<"dms_note", "exp_type">>, "notall"),
      dms_note |-> DMSAttrConstraint(<<"dms_note">>, Alt({"wfsc_los_jitter"}),
                                     DEFAULT_FORCE_UNIQUE),
      exp_type |-> DMSAttrConstraint(<<"exp_type">>, Alt({"nrc_image"}), DEFAULT_FORCE_UNIQUE) ]

Asn_Lv2ImageTSO_constraints ==
    [ root |-> Constraint(<<"base", "mode", "image_science", "single_science", "tso">>,
                          "all"),
      base |-> Constraint_Base,
      program |-> DMSAttrConstraint(<<"program">>, Unbound, DEFAULT_FORCE_UNIQUE),
      mode |-> Constraint_Mode,
      instrument |-> DMSAttrConstraint(<<"instrume">>, Unbound, DEFAULT_FORCE_UNIQUE),
      image_science |-> Constraint_Image_Science,
      single_science |-> Constraint_Single_Science(NoReprocess),
      tso |-> Constraint_TSO ]

Asn_Lv2NRSIFUNod_constraints ==
    [ root |-> Constraint(<<"base", "mode", "exp_type", "valid_detector", "patttype",
                            "mosaic_tile">>, "all"),
      base |-> Constraint_Base,
      program |-> DMSAttrConstraint(<<"program">>, Unbound, DEFAULT_FORCE_UNIQUE),
      mode |-> Constraint_Mode,
      instrument |-> DMSAttrConstraint(<<"instrume">>, Unbound, DEFAULT_FORCE_UNIQUE),
      exp_type |-> DMSAttrConstraint(<<"exp_type">>, Alt({"nrs_ifu"}), DEFAULT_FORCE_UNIQUE),
      valid_detector |-> SimpleConstraint(Val("True"), "item", "nrsifu_valid_detector", FALSE,
                                          NoReprocess),
      patttype |-> DMSAttrConstraint(<<"patttype">>, Alt({"2-point-nod", "4-point-nod"}), TRUE),
      mosaic_tile |-> DMSAttrConstraint(<<"mostilno">>, Unbound, DEFAULT_FORCE_UNIQUE) ]

\* Mutant of Asn_Lv2NRSLAMPImage_constraints: opmode is required, as by default
Asn_Lv2NRSLAMPImage_constraints_AllRequired ==
    [ root |-> Constraint(<<"base", "single_science", "exp_type", "grating", "opmode">>, "all"),
      base |-> Constraint_Base,
      program |-> DMSAttrConstraint(<<"program">>, Unbound, DEFAULT_FORCE_UNIQUE),
      single_science |-> Constraint_Single_Science(NoReprocess),
      exp_type |-> DMSAttrConstraint(<<"exp_type">>, Alt({"nrs_lamp"}), DEFAULT_FORCE_UNIQUE),
      grating |-> DMSAttrConstraint(<<"grating">>, Alt({"mirror"}), DEFAULT_FORCE_UNIQUE),
      opmode |-> DMSAttrConstraint(<<"opmode">>, Alt({"image"}), DEFAULT_FORCE_UNIQUE) ]

Asn_Lv2NRSLAMPImage_constraints ==
    [ root |-> Constraint(<<"base", "single_science", "exp_type", "grating", "opmode">>, "all"),
      base |-> Constraint_Base,
      program |-> DMSAttrConstraint(<<"program">>, Unbound, DEFAULT_FORCE_UNIQUE),
      single_science |-> Constraint_Single_Science(NoReprocess),
      exp_type |-> DMSAttrConstraint(<<"exp_type">>, Alt({"nrs_lamp"}), DEFAULT_FORCE_UNIQUE),
      grating |-> DMSAttrConstraint(<<"grating">>, Alt({"mirror"}), DEFAULT_FORCE_UNIQUE),
      opmode |-> [DMSAttrConstraint(<<"opmode">>, Alt({"image"}), DEFAULT_FORCE_UNIQUE)
                     EXCEPT !.required = FALSE] ]

\* Constraint_Target(): the target every member shares
Constraint_Target == DMSAttrConstraint(<<"targetid">>, Unbound, DEFAULT_FORCE_UNIQUE)

\* Mutant of Asn_Lv2WFSSNRC_constraints: the direct image raises no request
Asn_Lv2WFSSNRC_constraints_NoReprocess ==
    [ root |-> Constraint(<<"base", "target", "exp_or_image", "instrument", "detector",
                            "nonscience_or_single">>, "all"),
      base |-> Constraint_Base,
      program |-> DMSAttrConstraint(<<"program">>, Unbound, DEFAULT_FORCE_UNIQUE),
      target |-> Constraint_Target,
      exp_or_image |-> Constraint(<<"exp_type", "image_exp_type">>, "any"),
      exp_type |-> DMSAttrConstraint(<<"exp_type">>, Alt({"nrc_wfss"}), DEFAULT_FORCE_UNIQUE),
      image_exp_type |-> DMSAttrConstraint(<<"exp_type">>, Alt({"nrc_image"}),
                                           DEFAULT_FORCE_UNIQUE),
      instrument |-> DMSAttrConstraint(<<"instrume">>, Unbound, DEFAULT_FORCE_UNIQUE),
      detector |-> DMSAttrConstraint(<<"detector">>, Unbound, DEFAULT_FORCE_UNIQUE),
      nonscience_or_single |-> Constraint(<<"not_science", "single_science">>, "any"),
      not_science |-> SimpleConstraint(Val("science"), "item", "exposure_type_is_not", FALSE,
                                       NoReprocess),
      single_science |-> Constraint_Single_Science(NoReprocess) ]

Asn_Lv2WFSSNRC_constraints ==
    [ root |-> Constraint(<<"base", "target", "exp_or_image", "instrument", "detector",
                            "nonscience_or_single">>, "all"),
      base |-> Constraint_Base,
      program |-> DMSAttrConstraint(<<"program">>, Unbound, DEFAULT_FORCE_UNIQUE),
      target |-> Constraint_Target,
      exp_or_image |-> Constraint(<<"exp_type", "image_exp_type">>, "any"),
      exp_type |-> DMSAttrConstraint(<<"exp_type">>, Alt({"nrc_wfss"}), DEFAULT_FORCE_UNIQUE),
      image_exp_type |-> [DMSAttrConstraint(<<"exp_type">>, Alt({"nrc_image"}),
                                            DEFAULT_FORCE_UNIQUE)
                             EXCEPT !.reprocess = NONSCIENCE, !.only_on_match = TRUE],
      instrument |-> DMSAttrConstraint(<<"instrume">>, Unbound, DEFAULT_FORCE_UNIQUE),
      detector |-> DMSAttrConstraint(<<"detector">>, Unbound, DEFAULT_FORCE_UNIQUE),
      nonscience_or_single |-> Constraint(<<"not_science", "single_science">>, "any"),
      not_science |-> SimpleConstraint(Val("science"), "item", "exposure_type_is_not", FALSE,
                                       NoReprocess),
      single_science |-> Constraint_Single_Science(NoReprocess) ]

Asn_Lv2WFSSParallel_constraints ==
    [ root |-> Constraint(<<"acdirect", "exp_or_image", "nonscience_or_single", "target",
                            "instrument">>, "all"),
      acdirect |-> DMSAttrConstraint(<<"asn_candidate">>, Alt({"[('c1000', 'direct_image')]"}),
                                     DEFAULT_FORCE_UNIQUE),
      exp_or_image |-> Constraint(<<"exp_type", "image_exp_type">>, "any"),
      exp_type |-> DMSAttrConstraint(<<"exp_type">>, Alt({"nis_wfss", "nrc_wfss"}),
                                     DEFAULT_FORCE_UNIQUE),
      image_exp_type |-> [DMSAttrConstraint(<<"exp_type">>, Alt({"nis_image", "nrc_image"}),
                                            DEFAULT_FORCE_UNIQUE)
                             EXCEPT !.reprocess = NONSCIENCE, !.only_on_match = TRUE],
      nonscience_or_single |-> Constraint(<<"not_science", "single_science">>, "any"),
      not_science |-> SimpleConstraint(Val("science"), "item", "exposure_type_is_not", FALSE,
                                       NoReprocess),
      single_science |-> Constraint_Single_Science(NoReprocess),
      target |-> Constraint_Target,
      instrument |-> DMSAttrConstraint(<<"instrume">>, Unbound, DEFAULT_FORCE_UNIQUE) ]

\* The base class: Constraint() with no children
Association_constraints ==
    [ root |-> Constraint(<<>>, "all") ]

\* The rule classes of rules_level2b that define a constraint tree
Lv2Rules == {"Asn_Lv2MIRLRSFixedSlitNod", "Asn_Lv2ImageTSO", "Asn_Lv2NRSIFUNod",
             "Asn_Lv2NRSLAMPImage", "Asn_Lv2Image", "Asn_Lv2WFSC"}

\* The WFSS rules, which ask for the direct image to be processed again
WFSSRules == {"Asn_Lv2WFSSNRC", "Asn_Lv2WFSSParallel"}

Rules == Lv2Rules \cup {"Association"}

Tree(rule) ==
    CASE rule = "Asn_Lv2MIRLRSFixedSlitNod" -> Asn_Lv2MIRLRSFixedSlitNod_constraints
      [] rule = "Asn_Lv2ImageTSO" -> Asn_Lv2ImageTSO_constraints
      [] rule = "Asn_Lv2NRSIFUNod" -> Asn_Lv2NRSIFUNod_constraints
      [] rule = "Asn_Lv2NRSLAMPImage" -> Asn_Lv2NRSLAMPImage_constraints
      [] rule = "Asn_Lv2Image" -> Asn_Lv2Image_constraints
      [] rule = "Asn_Lv2WFSC" -> Asn_Lv2WFSC_constraints
      [] rule = "Asn_Lv2WFSSNRC" -> Asn_Lv2WFSSNRC_constraints
      [] rule = "Asn_Lv2WFSSParallel" -> Asn_Lv2WFSSParallel_constraints
      [] OTHER -> Association_constraints

LeafIds(rule) == { id \in DOMAIN Tree(rule) : Tree(rule)[id].kind \in {"attr", "simple"} }

\* The mutable state of the leaves of a fresh tree
FreshConstraints(rule) ==
    [ id \in LeafIds(rule) |->
        [value |-> Tree(rule)[id].value, found_values |-> {},
         force_unique |-> Tree(rule)[id].force_unique, matched |-> FALSE] ]

\* ------------------------------------------------------------------------
\* Association objects
\* ------------------------------------------------------------------------

\* Association.__init__: the document, the init-hook flag and the rule's own
\* constraint tree.  rule = None stands for "no object" (Python None).
\* from_items are the identities of the items merged so far; acid_type is the
\* type of the candidate the association is generated for; hook_log records
\* every call of _init_hook (the item and the number of members it saw).
Association(rule, acid_type) ==
    [ rule |-> rule,
      data |-> [asn_type |-> "None", asn_rule |-> rule, version_id |-> None,
                code_version |-> "__version__", products |-> <<>>],
      run_init_hook |-> TRUE,
      constraints |-> FreshConstraints(rule),
      from_items |-> {},
      acid_type |-> acid_type,
      hook_log |-> <<>> ]

NoAssociation == Association(None, None)

\* The rule classes that implement is_item_member and _add
\* Mutant of Implements: the base class has the two methods as well
Implements_BaseToo(rule) == TRUE

Implements(rule) == rule \in Lv2Rules \cup WFSSRules

\* The rule classes that define schema_file
HasSchemaFile(rule) == rule \in Lv2Rules \cup WFSSRules

Members(a) == IF a.data.products = <<>> THEN <<>> ELSE a.data.products[1].members

has_science(a) == \E k \in 1..Len(Members(a)) : Members(a)[k].exptype = "science"

\* get_exposure_type(item, default="science"): an exposure of a background
\* target is a background, an image is the direct image of a WFSS rule;
\* Asn_Lv2MIRLRSFixedSlitNod marks a science exposure as background when
\* is_current_patt_num last matched.
get_exposure_type(a, b, item) ==
    IF item.bkgdtarg = "t"
    THEN "background"
    ELSE IF a.rule \in WFSSRules /\ item.exp_type \in {"nis_image", "nrc_image"}
    THEN "direct_image"
    ELSE IF a.rule = "Asn_Lv2MIRLRSFixedSlitNod" /\ b["is_current_patt_num"].matched
    THEN "background"
    ELSE "science"

\* ------------------------------------------------------------------------
\* Constraint evaluation
\* ------------------------------------------------------------------------

Min(S) == CHOOSE x \in S : \A y \in S : x <= y

\* Mutant of Resolve: the value of the last source the item carries
Resolve_LastPresent(item, sources) ==
    LET present == { k \in 1..Len(sources) : item[sources[k]] # Absent }
    IN  IF present = {} THEN Absent ELSE item[sources[CHOOSE k \in present : \A j \in present : j <= k]]

\* conditions["inputs"](item): the value of the first source the item carries
Resolve(item, sources) ==
    LET present == { k \in 1..Len(sources) : item[sources[k]] # Absent }
    IN  IF present = {} THEN Absent ELSE item[sources[Min(present)]]

\* meets_conditions(value, conditions): does the whole of value match the pattern?
\* b gives the current bindings, for a pattern computed from another node.
meets_conditions(value, pattern, b) ==
    CASE pattern.kind = "not" ->
            \* "((?!X).)*" accepts every string that does not contain X;
            \* an unbound X formats as "None"
            LET x == b[pattern.ref].value
            IN  x.kind = "none" \/ value \notin x.alts
      [] OTHER -> value \in pattern.alts

\* Mutant of match_constraint: a value is fixed only under force_unique
match_constraint_FixesOnlyForced(evaled_str, st, b) ==
    IF st.value.kind # "none" /\ ~meets_conditions(evaled_str, st.value, b)
    THEN [st |-> [st EXCEPT !.matched = FALSE], match |-> FALSE]
    ELSE [st |-> [value |-> IF st.force_unique THEN re_escape(evaled_str) ELSE st.value,
                  found_values |-> st.found_values \cup {re_escape(evaled_str)},
                  force_unique |-> FALSE,
                  matched |-> TRUE],
          match |-> TRUE]

\* Mutant of match_constraint: force_unique is not read, only an unbound value is fixed
match_constraint_IgnoresForceUnique(evaled_str, st, b) ==
    IF st.value.kind # "none" /\ ~meets_conditions(evaled_str, st.value, b)
    THEN [st |-> [st EXCEPT !.matched = FALSE], match |-> FALSE]
    ELSE [st |-> [value |-> IF st.value.kind = "none" THEN re_escape(evaled_str) ELSE st.value,
                  found_values |-> st.found_values \cup {re_escape(evaled_str)},
                  force_unique |-> st.force_unique,
                  matched |-> TRUE],
          match |-> TRUE]

\* Mutant of match_constraint: a match records its value in place of the
\* values found before
match_constraint_ForgetsEarlier(evaled_str, st, b) ==
    IF st.value.kind # "none" /\ ~meets_conditions(evaled_str, st.value, b)
    THEN [st |-> [st EXCEPT !.matched = FALSE], match |-> FALSE]
    ELSE LET escaped_value == re_escape(evaled_str)
             fix == st.value.kind = "none" \/ st.force_unique
         IN  [st |-> [value |-> IF fix THEN escaped_value ELSE st.value,
                      found_values |-> {escaped_value},
                      force_unique |-> IF fix THEN FALSE ELSE st.force_unique,
                      matched |-> TRUE],
              match |-> TRUE]

\* Association.match_constraint(item, conditions), on the state st of one node
match_constraint(evaled_str, st, b) ==
    IF st.value.kind # "none" /\ ~meets_conditions(evaled_str, st.value, b)
    THEN [st |-> [st EXCEPT !.matched = FALSE], match |-> FALSE]
    ELSE LET escaped_value == re_escape(evaled_str)
             fix == st.value.kind = "none" \/ st.force_unique
         IN  [st |-> [value |-> IF fix THEN escaped_value ELSE st.value,
                      found_values |-> st.found_values \cup {escaped_value},
                      force_unique |-> IF fix THEN FALSE ELSE st.force_unique,
                      matched |-> TRUE],
              match |-> TRUE]

\* A DMSAttrConstraint: no source present passes only when it is not required
AttrConstraint_check_and_set(n, st, b, item) ==
    LET evaled_str == Resolve(item, n.sources)
    IN  IF evaled_str = Absent
        THEN [st |-> [st EXCEPT !.matched = ~n.required], match |-> ~n.required]
        ELSE match_constraint(evaled_str, st, b)

\* The test callables of the SimpleConstraints
SimpleTest(a, b, test, value, item) ==
    CASE test = "acid_not_background" -> a.acid_type # "background"
      [] test = "exposure_type_is_not" -> get_exposure_type(a, b, item) \notin value.alts
      [] test = "single_science" ->
            get_exposure_type(a, b, item) = "science" /\ (has_science(a) = ("True" \in value.alts))
      [] OTHER -> TRUE

\* A SimpleConstraint: sources(item) is the value, test(value, source) decides
SimpleConstraint_check_and_set(a, n, st, b, item) ==
    LET source_value == IF n.sources[1] = "item" THEN ToString(item.id) ELSE n.sources[1]
        satisfied == st.value.kind = "none" \/ SimpleTest(a, b, n.test, st.value, item)
        fix == st.value.kind = "none" \/ st.force_unique
    IN  IF ~satisfied
        THEN [st |-> [st EXCEPT !.matched = FALSE], match |-> FALSE]
        ELSE [st |-> [value |-> IF fix THEN Val(source_value) ELSE st.value,
                      found_values |-> st.found_values \cup {Val(source_value)},
                      force_unique |-> IF fix THEN FALSE ELSE st.force_unique,
                      matched |-> TRUE],
              match |-> TRUE]

\* A request to process an item again: ProcessList(items, work_over, rules,
\* trigger_rules, only_on_match).  rules is None until an association claims
\* the request.
ProcessList(item, work_over) ==
    [item |-> item.id, work_over |-> work_over, rules_is_none |-> TRUE, rules |-> <<>>,
     trigger_rules |-> {}, only_on_match |-> FALSE]

\* The reduce operators of a Constraint, on the vector of its children's results
Reduce(op, results) ==
    LET some == \E k \in 1..Len(results) : results[k]
        every == \A k \in 1..Len(results) : results[k]
    IN  CASE op = "all" -> every
          [] op = "any" -> some
          [] op = "notany" -> ~some
          [] OTHER -> ~every

\* Does the result of a child decide the result of the reduce operator?
Decides(op, match) == IF op \in {"all", "notall"} THEN ~match ELSE match

\* What a leaf hands to its parent: the bindings with the leaf's new state,
\* its verdict, and the request it raises on a match
LeafResult(n, id, b, item, r) ==
    [b |-> [b EXCEPT ![id] = r.st], match |-> r.match,
     reprocess |-> IF r.match /\ n.reprocess # NoReprocess
                   THEN <<[ProcessList(item, n.reprocess)
                              EXCEPT !.only_on_match = n.only_on_match]>>
                   ELSE <<>>]

\* Is the request one that is raised whether the constraint matches or not?
AlsoOnMiss(request) == ~request.only_on_match

\* Mutant of ReduceResult: a request raised only on a match is handed on by
\* a Constraint that did not match
ReduceResult_KeepsAll(op, r) ==
    [b |-> r.b, match |-> Reduce(op, r.results), reprocess |-> r.reprocess]

\* What a Constraint hands to its parent, from what its children gave: a
\* Constraint that did not match drops the requests raised only on a match
ReduceResult(op, r) ==
    [b |-> r.b, match |-> Reduce(op, r.results),
     reprocess |-> IF Reduce(op, r.results)
                   THEN r.reprocess
                   ELSE SelectSeq(r.reprocess, AlsoOnMiss)]

RECURSIVE Constraint_check_and_set(_, _, _, _, _)
RECURSIVE check_children(_, _, _, _, _, _, _, _, _)
RECURSIVE check_next_child(_, _, _, _, _, _, _, _, _)

\* The children of a Constraint, evaluated in order from child k on
check_children(a, short, op, children, k, b, item, results, reprocess) ==
    IF k > Len(children)
    THEN [b |-> b, results |-> results, reprocess |-> reprocess]
    ELSE check_next_child(a, short, op, children, k, item, results, reprocess,
                          Constraint_check_and_set(a, short, children[k], b, item))

\* r is the result of child k: with short_circuit the evaluation stops at the
\* child that decides the result, otherwise every child is evaluated
check_next_child(a, short, op, children, k, item, results, reprocess, r) ==
    IF short /\ Decides(op, r.match)
    THEN [b |-> r.b, results |-> Append(results, r.match),
          reprocess |-> reprocess \o r.reprocess]
    ELSE check_children(a, short, op, children, k + 1, r.b, item,
                        Append(results, r.match), reprocess \o r.reprocess)

\* Constraint.check_and_set(item) on node id: the new bindings, the verdict and
\* the requests raised
Constraint_check_and_set(a, short, id, b, item) ==
    CASE Tree(a.rule)[id].kind = "attr" ->
            LeafResult(Tree(a.rule)[id], id, b, item,
                       AttrConstraint_check_and_set(Tree(a.rule)[id], b[id], b, item))
      [] Tree(a.rule)[id].kind = "simple" ->
            LeafResult(Tree(a.rule)[id], id, b, item,
                       SimpleConstraint_check_and_set(a, Tree(a.rule)[id], b[id], b, item))
      [] OTHER ->
            ReduceResult(Tree(a.rule)[id].kind,
                         check_children(a, short, Tree(a.rule)[id].kind,
                                        Tree(a.rule)[id].children, 1, b, item, <<>>, <<>>))

\* ------------------------------------------------------------------------
\* Association.add and what it calls
\* ------------------------------------------------------------------------

\* What a call ends with: kind "return" or "raise" (then exc names the
\* exception).  A returned value is spread over match and reprocess (the pair
\* add returns), value (the object returned, by name) and payload (a document
\* or a serialization); warnings are the warnings emitted on the way.
Result(kind, exc, match, reprocess, value, payload, warnings) ==
    [kind |-> kind, exc |-> exc, match |-> match, reprocess |-> reprocess,
     value |-> value, payload |-> payload, warnings |-> warnings]

NoPayload == [syntax |-> None, data |-> Association(None, None).data]

Return(value, payload, warnings) == Result("return", None, FALSE, <<>>, value, payload, warnings)

ReturnPair(match, reprocess) == Result("return", None, match, reprocess, "pair", NoPayload, {})

Raise(exc, warnings) == Result("raise", exc, FALSE, <<>>, None, NoPayload, warnings)

\* Mutant of SetTriggerRules: the requests are handed on as the constraints raised them
SetTriggerRules_Skipped(a, reprocess) == reprocess

\* Lines 414-418: the association's rule class joins trigger_rules of every
\* request, and becomes its rules when it has none
SetTriggerRules(a, reprocess) ==
    [ k \in 1..Len(reprocess) |->
        [reprocess[k] EXCEPT !.trigger_rules = @ \cup {a.rule},
                             !.rules = IF reprocess[k].rules_is_none THEN <<a.rule>> ELSE @,
                             !.rules_is_none = FALSE] ]

\* Mutant of restore_on_miss: the bindings of a failed check are kept
restore_on_miss_NoRestore(a, preserved, r) ==
    [asn |-> [a EXCEPT !.constraints = r.b],
     match |-> r.match,
     reprocess |-> SetTriggerRules(a, r.reprocess)]

\* Lines 411-420: after constraints.check_and_set gave r, the preserved
\* bindings are restored when it did not match
restore_on_miss(a, preserved, r) ==
    [asn |-> [a EXCEPT !.constraints = IF r.match THEN r.b ELSE preserved],
     match |-> r.match,
     reprocess |-> SetTriggerRules(a, r.reprocess)]

\* Association.check_and_set_constraints(item): preserve, check, restore on a miss
check_and_set_constraints(a, short, item) ==
    restore_on_miss(a, a.constraints,
                    Constraint_check_and_set(a, short, "root", a.constraints, item))

\* is_item_member(item): is the item one of those merged already?
is_item_member(a, item) == item.id \in a.from_items

\* _init_hook(item): Asn_Lv2ImageTSO fixes asn_type to "tso-image2" and
\* Asn_Lv2WFSC to "wfs-image2"; the other image rules are of type "image2",
\* the spectral rules of type "spec2"
_init_hook(a, item) ==
    [a EXCEPT !.data.asn_type = CASE a.rule = "Asn_Lv2ImageTSO" -> "tso-image2"
                                  [] a.rule = "Asn_Lv2WFSC" -> "wfs-image2"
                                  [] a.rule \in {"Asn_Lv2NRSLAMPImage", "Asn_Lv2Image"} -> "image2"
                                  [] OTHER -> "spec2",
              !.hook_log = Append(@, [item |-> item.id, members |-> Len(Members(a))])]

\* _add(item): append the member, with its exposure type, to the first product
\* and record the item's identity
_add(a, item) ==
    LET member == [expname |-> item.expname,
                   exptype |-> get_exposure_type(a, a.constraints, item)]
    IN  [a EXCEPT !.data.products =
                        IF @ = <<>>
                        THEN << [name |-> item.expname, members |-> <<member>>] >>
                        ELSE [@ EXCEPT ![1].members = Append(@, member)],
                  !.from_items = @ \cup {item.id}]

\* self.constraints["force_match"].value, None when the tree has no such node
force_match_value(a) ==
    IF "force_match" \in DOMAIN a.constraints /\ a.constraints["force_match"].value.kind # "none"
    THEN CHOOSE v \in a.constraints["force_match"].value.alts : TRUE
    ELSE None

\* Mutant of Merge: the init-hook flag is never cleared
Merge_HookEveryTime(a, item) ==
    _add(IF a.run_init_hook THEN _init_hook(a, item) ELSE a, item)

\* The association after the init hook (first match only) and _add
Merge(a, item) ==
    _add(IF a.run_init_hook THEN [_init_hook(a, item) EXCEPT !.run_init_hook = FALSE] ELSE a,
         item)

\* Mutant of add_return: force_match is ignored
add_return_NoOverride(check_constraints, cs, a2) ==
    [asn |-> a2,
     ret |-> IF ~check_constraints
             THEN Raise("UnboundLocalError", {})
             ELSE ReturnPair(cs.match, cs.reprocess),
     evaluated |-> check_constraints,
     verdict |-> check_constraints /\ cs.match]

\* Lines 380-390: the force_match override and the return of add.  cs is the
\* result of the constraint check, a2 the association after lines 374-378.
add_return(check_constraints, cs, a2) ==
    [asn |-> a2,
     ret |-> IF ~check_constraints
             THEN Raise("UnboundLocalError", {})
             ELSE IF force_match_value(a2) # None
             THEN ReturnPair(force_match_value(a2) = "True", cs.reprocess)
             ELSE ReturnPair(cs.match, cs.reprocess),
     evaluated |-> check_constraints,
     verdict |-> check_constraints /\ cs.match]

\* Mutant of add_after_check: the item is merged when the boolean that add
\* returns says so, the force_match override included
add_after_check_MergesOnReturned(item, check_constraints, cs) ==
    add_return(check_constraints, cs,
               IF (IF force_match_value(cs.asn) # None
                   THEN force_match_value(cs.asn) = "True"
                   ELSE cs.match)
               THEN Merge(cs.asn, item)
               ELSE cs.asn)

\* Lines 374-390: the init hook and the merge on a match, then the return
add_after_check(item, check_constraints, cs) ==
    add_return(check_constraints, cs, IF cs.match THEN Merge(cs.asn, item) ELSE cs.asn)

\* Mutant of add: a member is checked and merged like any other item
add_NoMemberCheck(a, short, item, check_constraints) ==
    IF ~Implements(a.rule)
    THEN [asn |-> a, ret |-> Raise("NotImplementedError", {}), evaluated |-> FALSE,
          verdict |-> FALSE]
    ELSE add_after_check(item, check_constraints,
                         IF check_constraints
                         THEN check_and_set_constraints(a, short, item)
                         ELSE [asn |-> a, match |-> TRUE, reprocess |-> <<>>])

\* Association.add(item, check_constraints): the association afterwards, what
\* the call ended with, whether the constraint tree was evaluated and its verdict
add(a, short, item, check_constraints) ==
    IF ~Implements(a.rule)
    THEN [asn |-> a, ret |-> Raise("NotImplementedError", {}), evaluated |-> FALSE,
          verdict |-> FALSE]
    ELSE IF is_item_member(a, item)
    THEN [asn |-> a, ret |-> ReturnPair(TRUE, <<>>), evaluated |-> FALSE, verdict |-> FALSE]
    ELSE add_after_check(item, check_constraints,
                         IF check_constraints
                         THEN check_and_set_constraints(a, short, item)
                         ELSE [asn |-> a, match |-> TRUE, reprocess |-> <<>>])

\* Mutant of create_return: the association is returned whatever add said
create_return_AlwaysAsn(r) ==
    [added |-> r,
     asn |-> r.asn,
     ret |-> IF r.ret.kind = "raise"
             THEN r.ret
             ELSE Result("return", None, r.ret.match, r.ret.reprocess, "asn", NoPayload, {})]

\* Lines 139-141: what create returns after add gave r.  asn is the
\* association the caller gets (NoAssociation for None), added is what the
\* one call of add did.
create_return(r) ==
    [added |-> r,
     asn |-> IF r.ret.kind = "return" /\ r.ret.match THEN r.asn ELSE NoAssociation,
     ret |-> IF r.ret.kind = "raise"
             THEN r.ret
             ELSE Result("return", None, r.ret.match, r.ret.reprocess,
                         IF r.ret.match THEN "asn" ELSE None, NoPayload, {})]

\* Association.create(item): a new association of the rule, offered the item
create(rule, acid_type, short, item) ==
    create_return(add(Association(rule, acid_type), short, item, TRUE))

\* ------------------------------------------------------------------------
\* Validation
\* ------------------------------------------------------------------------

\* jsonschema.validate(asn_data, asn_schema): the schema asks for at least one
\* product and at least one member in every product
jsonschema_validate(data) ==
    /\ Len(data.products) >= 1
    /\ \A k \in 1..Len(data.products) : Len(data.products[k].members) >= 1

\* Path(expname).parent: "." when the name has no directory component
Path_parent(expname) == IF expname = "dir/jw_2.fits" THEN "dir" ELSE "."

\* Lines 224-234: the warning for every member whose expname carries a path
PathWarnings(data) ==
    IF \E k \in 1..Len(data.products) : \E m \in 1..Len(data.products[k].members) :
            Path_parent(data.products[k].members[m].expname) # "."
    THEN {"UserWarning: path information"}
    ELSE {}

\* Mutant of validate: a path in an expname fails the validation
validate_PathFails(rule, data) ==
    IF ~HasSchemaFile(rule)
    THEN Return("True", NoPayload, {"no schema"})
    ELSE IF ~jsonschema_validate(data) \/ PathWarnings(data) # {}
    THEN Raise("AssociationNotValidError", {})
    ELSE Return("True", NoPayload, {})

\* Association.validate(asn), a class method of the rule
validate(rule, data) ==
    IF ~HasSchemaFile(rule)
    THEN Return("True", NoPayload, {"no schema"})
    ELSE IF ~jsonschema_validate(data)
    THEN Raise("AssociationNotValidError", {})
    ELSE Return("True", NoPayload, PathWarnings(data))

\* Association.is_valid
is_valid(a) == validate(a.rule, a.data).kind = "return"

\* Mutant of finalize_return: the validation error reaches the caller
finalize_return_Raises(v) ==
    IF v.kind = "return" THEN Return("[self]", NoPayload, v.warnings) ELSE v

\* Lines 473-476: [self] when validate returned, None when it raised
finalize_return(v) ==
    IF v.kind = "return"
    THEN Return("[self]", NoPayload, v.warnings)
    ELSE Return(None, NoPayload, v.warnings)

\* Association.finalize()
finalize(a) == finalize_return(validate(a.rule, a.data))

\* ------------------------------------------------------------------------
\* Serialization
\* ------------------------------------------------------------------------

\* Association.ioregistry: the registered formats, in registration order
ioregistry == <<"json", "yaml">>

Registered(fmt) == \E k \in 1..Len(ioregistry) : ioregistry[k] = fmt

\* A scalar of a serialized document: the null literal or a quoted string
JNull == [json |-> "null", s |-> ""]

JString(s) == [json |-> "string", s |-> s]

\* The encoders write Python's None as null and a str as a quoted string
encode_scalar(v, optional) == IF optional /\ v = None THEN JNull ELSE JString(v)

decode_scalar(j) == IF j.json = "null" THEN None ELSE j.s

encode_member(m) == [expname |-> JString(m.expname), exptype |-> JString(m.exptype)]

decode_member(j) == [expname |-> decode_scalar(j.expname), exptype |-> decode_scalar(j.exptype)]

encode_product(p) ==
    [name |-> JString(p.name),
     members |-> [k \in 1..Len(p.members) |-> encode_member(p.members[k])]]

decode_product(j) ==
    [name |-> decode_scalar(j.name),
     members |-> [k \in 1..Len(j.members) |-> decode_member(j.members[k])]]

\* The text of a document: version_id is the only entry that may be None
encode(data) ==
    [asn_type |-> encode_scalar(data.asn_type, FALSE),
     asn_rule |-> encode_scalar(data.asn_rule, FALSE),
     version_id |-> encode_scalar(data.version_id, TRUE),
     code_version |-> encode_scalar(data.code_version, FALSE),
     products |-> [k \in 1..Len(data.products) |-> encode_product(data.products[k])]]

\* The document a text reads as
decode(text) ==
    [asn_type |-> decode_scalar(text.asn_type),
     asn_rule |-> decode_scalar(text.asn_rule),
     version_id |-> decode_scalar(text.version_id),
     code_version |-> decode_scalar(text.code_version),
     products |-> [k \in 1..Len(text.products) |-> decode_product(text.products[k])]]

\* ioregistry[fmt].dump(asn): the text of the document in the format's syntax
format_dump(fmt, a) == [syntax |-> fmt, data |-> encode(a.data)]

\* Can the format's parser read a text of this syntax?  JSON text is YAML too.
Parses(fmt, syntax) ==
    \/ fmt = "json" /\ syntax = "json"
    \/ fmt = "yaml" /\ syntax \in {"yaml", "json"}

\* ioregistry[fmt].load(cls, serialized): the association, or
\* AssociationNotValidError when the text is not of the format
format_load(fmt, serialized) ==
    IF Parses(fmt, serialized.syntax)
    THEN Return("asn", [syntax |-> None, data |-> decode(serialized.data)], {})
    ELSE Raise("AssociationNotValidError", {})

\* Mutant of dump_as: the association is serialized without the validity check
dump_as_Unchecked(a, f, v) ==
    IF Registered(f)
    THEN [ret |-> Return("(name, serialized)", format_dump(f, a), v.warnings),
          called |-> <<f>>]
    ELSE [ret |-> Raise("KeyError", v.warnings), called |-> <<>>]

\* Lines 267-270: the serializer of format f when the association is valid
\* (v is what validate ended with), AssociationNotValidError otherwise
dump_as(a, f, v) ==
    IF v.kind = "return"
    THEN IF Registered(f)
         THEN [ret |-> Return("(name, serialized)", format_dump(f, a), v.warnings),
               called |-> <<f>>]
         ELSE [ret |-> Raise("KeyError", v.warnings), called |-> <<>>]
    ELSE [ret |-> Raise("AssociationNotValidError", v.warnings), called |-> <<>>]

\* Association.dump(fmt=None, **kwargs); kwformat is kwargs["format"] or None
dump(a, fmt, kwformat) ==
    dump_as(a, IF fmt # None THEN fmt ELSE IF kwformat # None THEN kwformat ELSE "json",
            validate(a.rule, a.data))

\* Mutant of try_formats: every loader is called, the last success is returned
try_formats_CallsEvery(formats, k, serialized, called) ==
    [ret |-> IF \E j \in k..Len(formats) : format_load(formats[j], serialized).kind = "return"
             THEN format_load(formats[CHOOSE j \in k..Len(formats) :
                                         format_load(formats[j], serialized).kind = "return"],
                              serialized)
             ELSE Raise("AssociationNotValidError", {}),
     called |-> called \o SubSeq(formats, k, Len(formats))]

RECURSIVE try_formats(_, _, _, _)

\* Lines 315-323: the loaders tried in order from the k-th on; called lists
\* the loaders that were called
try_formats(formats, k, serialized, called) ==
    IF k > Len(formats)
    THEN [ret |-> Raise("AssociationNotValidError", {}), called |-> called]
    ELSE IF format_load(formats[k], serialized).kind = "raise"
    THEN try_formats(formats, k + 1, serialized, Append(called, formats[k]))
    ELSE [ret |-> format_load(formats[k], serialized), called |-> Append(called, formats[k])]

\* Mutant of load_validate: what validate returned is returned
load_validate_ReturnsTrue(rule, do_validate, t) ==
    IF t.ret.kind = "raise" \/ ~do_validate
    THEN t
    ELSE [ret |-> validate(rule, t.ret.payload.data), called |-> t.called]

\* Lines 325-329: validate what the loaders gave (t), when asked to
load_validate(rule, do_validate, t) ==
    IF t.ret.kind = "raise" \/ ~do_validate
    THEN t
    ELSE IF validate(rule, t.ret.payload.data).kind = "raise"
    THEN [ret |-> validate(rule, t.ret.payload.data), called |-> t.called]
    ELSE [ret |-> [t.ret EXCEPT !.warnings = validate(rule, t.ret.payload.data).warnings],
          called |-> t.called]

\* Mutant of load_formats: None is returned when every loader has failed
load_formats_ReturnsNone(rule, serialized, f, do_validate) ==
    IF f # None /\ ~Registered(f)
    THEN [ret |-> Raise("KeyError", {}), called |-> <<>>]
    ELSE IF try_formats(IF f = None THEN ioregistry ELSE <<f>>, 1, serialized,
                        <<>>).ret.kind = "raise"
    THEN [ret |-> Return(None, NoPayload, {}),
          called |-> try_formats(IF f = None THEN ioregistry ELSE <<f>>, 1, serialized,
                                 <<>>).called]
    ELSE load_validate(rule, do_validate,
                       try_formats(IF f = None THEN ioregistry ELSE <<f>>, 1, serialized, <<>>))

\* Mutant of load_formats: after the format asked for, the others are tried
load_formats_FallsBack(rule, serialized, f, do_validate) ==
    IF f # None /\ ~Registered(f)
    THEN [ret |-> Raise("KeyError", {}), called |-> <<>>]
    ELSE load_validate(rule, do_validate,
                       try_formats(IF f = None THEN ioregistry ELSE <<f>> \o ioregistry, 1,
                                   serialized, <<>>))

\* Lines 308-323: the loaders of format f, or of every registered format
load_formats(rule, serialized, f, do_validate) ==
    IF f # None /\ ~Registered(f)
    THEN [ret |-> Raise("KeyError", {}), called |-> <<>>]
    ELSE load_validate(rule, do_validate,
                       try_formats(IF f = None THEN ioregistry ELSE <<f>>, 1, serialized, <<>>))

\* Association.load(serialized, fmt=None, validate=True, **kwargs)
load(rule, serialized, fmt, do_validate, kwformat) ==
    load_formats(rule, serialized, IF fmt # None THEN fmt ELSE kwformat, do_validate)

\* ------------------------------------------------------------------------
\* The MatchEngine: the rule registry, the worklist loop, the reprocess queue
\* ------------------------------------------------------------------------

\* Number of items in the initial pool of a run
MaxPool == 3

\* The registered rule variants, in registration order
RuleRegistry ==
    <<"Asn_Lv2Image", "Asn_Lv2ImageTSO", "Asn_Lv2MIRLRSFixedSlitNod", "Asn_Lv2WFSSNRC",
      "Asn_Lv2WFSSParallel">>

\* The exposures a pool is drawn from
EngineItems == WFSSItems \cup { i \in Items : i.id \in {1, 2, 6, 19} }

EngineItem(id) == CHOOSE i \in EngineItems : i.id = id

\* The variants of the registry that are among allow, in registration order
Allowed(allow, k) ==
    IF RuleRegistry[k] \in allow THEN <<RuleRegistry[k]>> ELSE <<>>

RECURSIVE Flatten(_, _)

\* The concatenation of the sequences seqs[k], seqs[k+1], ...
Flatten(seqs, k) == IF k > Len(seqs) THEN <<>> ELSE seqs[k] \o Flatten(seqs, k + 1)

\* What create gave up to the first variant that accepted
UpToFirst(created) ==
    SubSeq(created, 1,
           IF \E k \in 1..Len(created) : created[k].asn.rule # None
           THEN CHOOSE k \in 1..Len(created) :
                  /\ created[k].asn.rule # None
                  /\ \A j \in 1..(k - 1) : created[j].asn.rule = None
           ELSE Len(created))

\* Mutant of match_all: the variants after the first that accepts are not asked
match_all_StopsAtFirst(short, item, allow) ==
    UpToFirst([ k \in 1..Len(Flatten([j \in 1..Len(RuleRegistry) |-> Allowed(allow, j)], 1)) |->
                  create(Flatten([j \in 1..Len(RuleRegistry) |-> Allowed(allow, j)], 1)[k],
                         "observation", short, item) ])

\* RuleRegistry.match_all(item), over the variants among allow: what create
\* gives on each of them, in registration order
match_all(short, item, allow) ==
    [ k \in 1..Len(Flatten([j \in 1..Len(RuleRegistry) |-> Allowed(allow, j)], 1)) |->
        create(Flatten([j \in 1..Len(RuleRegistry) |-> Allowed(allow, j)], 1)[k],
               "observation", short, item) ]

\* The key a queued request is merged by
RequestKey(r) == <<r.item, r.work_over>>

\* Mutant of merge_request: the request is queued whatever the queue holds
merge_request_Appends(queue, r) == Append(queue, r)

\* Mutant of merge_request: a request of a new key is queued before the others
merge_request_Prepends(queue, r) ==
    IF \E k \in 1..Len(queue) : RequestKey(queue[k]) = RequestKey(r)
    THEN [ k \in 1..Len(queue) |->
             IF RequestKey(queue[k]) = RequestKey(r)
             THEN [queue[k] EXCEPT !.trigger_rules = @ \cup r.trigger_rules]
             ELSE queue[k] ]
    ELSE <<r>> \o queue

\* A returned request joins the queued request of its key, or the queue's end
merge_request(queue, r) ==
    IF \E k \in 1..Len(queue) : RequestKey(queue[k]) = RequestKey(r)
    THEN [ k \in 1..Len(queue) |->
             IF RequestKey(queue[k]) = RequestKey(r)
             THEN [queue[k] EXCEPT !.trigger_rules = @ \cup r.trigger_rules]
             ELSE queue[k] ]
    ELSE Append(queue, r)

RECURSIVE merge_requests(_, _, _)

\* The requests from the k-th on, merged into the queue one after the other
merge_requests(queue, requests, k) ==
    IF k > Len(requests)
    THEN queue
    ELSE merge_requests(merge_request(queue, requests[k]), requests, k + 1)

\* add(item) on every existing association of a rule among allow; the others
\* are not offered the item
offer_existing(asns, short, item, allow) ==
    [ k \in 1..Len(asns) |->
        IF asns[k].rule \in allow
        THEN add(asns[k], short, item, TRUE)
        ELSE [asn |-> asns[k], ret |-> ReturnPair(FALSE, <<>>), evaluated |-> FALSE,
              verdict |-> FALSE] ]

\* The rules of the existing associations that accepted the item
AcceptedBy(added) == { added[k].asn.rule : k \in { j \in 1..Len(added) : added[j].ret.match } }

\* The associations among what create gave
Spawned(created, k) ==
    IF created[k].asn.rule # None THEN <<created[k].asn>> ELSE <<>>

\* What a step of the engine recorded: the item offered, the rules whose
\* existing associations accepted it, the rules that spawned an association
\* for it, and the requests the step returned
Step(op, item, accepted, spawned, requests) ==
    [op |-> op, item |-> item, accepted |-> accepted, spawned |-> spawned,
     requests |-> requests]

NoStep == Step("none", 0, {}, {}, <<>>)

\* No rule class has a GLOBAL_CONSTRAINT (line 69): there is no constraint
\* object outside the trees of the associations
NoHeap == [cells |-> <<>>, ref |-> <<>>]

\* No script or utility function was started
NoProc == [status |-> "none"]

\* An engine that was given nothing
IdleEngine == [pool |-> <<>>, asns |-> <<>>, queue |-> <<>>, step |-> NoStep]

\* The engine after the item was offered: added is what add gave on the
\* existing associations, created what create gave on the variants
offered(e, op, item, added, created) ==
    [ pool |-> e.pool,
      asns |-> [k \in 1..Len(added) |-> added[k].asn]
                  \o Flatten([k \in 1..Len(created) |-> Spawned(created, k)], 1),
      queue |-> merge_requests(e.queue,
                               Flatten([k \in 1..Len(added) |-> added[k].ret.reprocess], 1)
                                  \o Flatten([k \in 1..Len(created) |->
                                                 created[k].ret.reprocess], 1),
                               1),
      step |-> Step(op, item.id, AcceptedBy(added),
                    { created[k].asn.rule : k \in { j \in 1..Len(created) :
                                                       created[j].asn.rule # None } },
                    Flatten([k \in 1..Len(added) |-> added[k].ret.reprocess], 1)
                       \o Flatten([k \in 1..Len(created) |-> created[k].ret.reprocess], 1)) ]

\* Mutant of offer_variants: every variant is offered the item, whatever the
\* existing associations answered
offer_variants_AlwaysSpawns(e, short, op, item, spawn, added) ==
    offered(e, op, item, added, match_all(short, item, spawn))

\* The variants that are offered the item once the existing associations have
\* answered: those among spawn none of whose associations accepted it
offer_variants(e, short, op, item, spawn, added) ==
    offered(e, op, item, added, match_all(short, item, spawn \ AcceptedBy(added)))

\* Step 1 of the loop: the item is offered to every existing association, then
\* to every variant none of whose associations accepted it
offer(e, short, item) ==
    offer_variants(e, short, "offer", item, { RuleRegistry[k] : k \in 1..Len(RuleRegistry) },
                   offer_existing(e.asns, short, item,
                                  { RuleRegistry[k] : k \in 1..Len(RuleRegistry) }))

\* Mutant of reoffer: the item of a popped request is offered again to every
\* association and every variant
reoffer_ToAll(e, short, r) ==
    offer_variants(e, short, "drain", EngineItem(r.item),
                   { RuleRegistry[k] : k \in 1..Len(RuleRegistry) },
                   offer_existing(e.asns, short, EngineItem(r.item),
                                  { RuleRegistry[k] : k \in 1..Len(RuleRegistry) }))

\* Step 3 of the loop: the item of a popped request is offered again, to the
\* existing associations and the variants of the rules in its trigger_rules
reoffer(e, short, r) ==
    offer_variants(e, short, "drain", EngineItem(r.item), r.trigger_rules,
                   offer_existing(e.asns, short, EngineItem(r.item), r.trigger_rules))

\* ------------------------------------------------------------------------
\* The state machine: a caller that holds one association and calls its API
\* ------------------------------------------------------------------------

VARIABLES
    asn,            \* the association the caller holds (NoAssociation: none)
    short_circuit,  \* whether a Constraint stops at the child that decides it
    finalized,      \* finalize has returned for asn
    last,           \* the last call: its arguments and what it ended with
    engine,         \* the MatchEngine: its pool, its associations, its queue
    heap,           \* the constraint objects a rule class may hand to its instances
    proc            \* the run of a command-line script or utility function

vars == <<asn, short_circuit, finalized, last, engine, heap, proc>>

ItemById(id) == CHOOSE i \in Items : i.id = id

AcidTypes == {"observation", "background"}

Formats == {None, "json", "yaml", "xml"}

\* Documents a serialization may hold: of a fresh association, of one with a
\* member, of one with a member whose expname carries a path
SampleDocs ==
    { Association("Asn_Lv2ImageTSO", "observation").data,
      Merge(Association("Asn_Lv2ImageTSO", "observation"), ItemById(5)).data,
      Merge(Association("Asn_Lv2MIRLRSFixedSlitNod", "observation"), ItemById(2)).data }

SerializedInputs == { [syntax |-> sx, data |-> encode(d)] : sx \in {"json", "yaml", "garbage"},
                                                           d \in SampleDocs }

\* What the caller can hand to load: a text it was given, or the text the
\* dump call before gave it
Dumped(c) == IF c.op = "dump" /\ c.ret.kind = "return" THEN {c.ret.payload} ELSE {}

\* A call: the operation, its arguments (rule: the class it is called on;
\* item: the item's id, 0 for none; fmt and kwformat: the format arguments, with
\* create and __init__ the candidate type; flag: check_constraints or validate;
\* arg: the serialization given to load), what it ended with (ret), whether the
\* constraint tree was evaluated and its verdict, and the serializers called
Call(op, rule, item, fmt, kwformat, flag, arg, ret, evaluated, verdict, called) ==
    [op |-> op, rule |-> rule, item |-> item, fmt |-> fmt, kwformat |-> kwformat,
     flag |-> flag, arg |-> arg, ret |-> ret, evaluated |-> evaluated,
     verdict |-> verdict, called |-> called]

NoCall == Call("none", None, 0, None, None, FALSE, NoPayload, Return(None, NoPayload, {}),
               FALSE, FALSE, <<>>)

Init ==
    /\ proc = NoProc
    /\ asn = NoAssociation
    /\ short_circuit \in BOOLEAN
    /\ finalized = FALSE
    /\ last = NoCall
    /\ engine = IdleEngine
    /\ heap = NoHeap

\* asn = cls(), by a caller that holds no association yet
Construct(rule, acid_type) ==
    /\ asn.rule = None
    /\ asn' = Association(rule, acid_type)
    /\ finalized' = FALSE
    /\ last' = Call("init", rule, 0, acid_type, None, FALSE, NoPayload,
                    Return("asn", NoPayload, {}), FALSE, FALSE, <<>>)
    /\ UNCHANGED <<short_circuit, engine, heap, proc>>

\* The caller's state after create ended with r
CreateEnds(rule, acid_type, item, r) ==
    /\ asn' = r.asn
    /\ finalized' = FALSE
    /\ last' = Call("create", rule, item.id, acid_type, None, FALSE, NoPayload, r.ret,
                    r.added.evaluated, r.added.verdict, <<>>)
    /\ UNCHANGED <<short_circuit, engine, heap, proc>>

\* asn, reprocess = cls.create(item), by a caller that holds no association yet
Create(rule, acid_type, item) ==
    /\ asn.rule = None
    /\ CreateEnds(rule, acid_type, item, create(rule, acid_type, short_circuit, item))

\* The caller's state after add ended with r
AddEnds(item, r) ==
    /\ asn' = r.asn
    /\ last' = Call("add", asn.rule, item.id, None, None, TRUE, NoPayload, r.ret,
                    r.evaluated, r.verdict, <<>>)
    /\ UNCHANGED <<short_circuit, finalized, engine, heap, proc>>

\* asn.add(item)
Add(item) ==
    /\ asn.rule # None
    /\ Len(Members(asn)) < MaxMembers
    /\ AddEnds(item, add(asn, short_circuit, item, TRUE))

\* Mutant of Finalize: an association that fails validation is dropped
Finalize_Discards ==
    /\ asn.rule # None
    /\ finalized' = TRUE
    /\ last' = Call("finalize", asn.rule, 0, None, None, FALSE, NoPayload, finalize(asn),
                    FALSE, FALSE, <<>>)
    /\ asn' = IF is_valid(asn) THEN asn ELSE NoAssociation
    /\ UNCHANGED <<short_circuit, engine, heap, proc>>

\* asn.finalize()
Finalize ==
    /\ asn.rule # None
    /\ finalized' = TRUE
    /\ last' = Call("finalize", asn.rule, 0, None, None, FALSE, NoPayload, finalize(asn),
                    FALSE, FALSE, <<>>)
    /\ UNCHANGED <<asn, short_circuit, engine, heap, proc>>

\* cls.validate(asn)
Validate ==
    /\ asn.rule # None
    /\ last' = Call("validate", asn.rule, 0, None, None, FALSE, NoPayload,
                    validate(asn.rule, asn.data), FALSE, FALSE, <<>>)
    /\ UNCHANGED <<asn, short_circuit, finalized, engine, heap, proc>>

\* asn.dump(fmt) and asn.dump(format=kwformat)
Dump(fmt, kwformat) ==
    /\ asn.rule # None
    /\ fmt # None => kwformat = None
    /\ last' = Call("dump", asn.rule, 0, fmt, kwformat, FALSE, NoPayload,
                    dump(asn, fmt, kwformat).ret, FALSE, FALSE,
                    dump(asn, fmt, kwformat).called)
    /\ UNCHANGED <<asn, short_circuit, finalized, engine, heap, proc>>

\* cls.load(serialized, fmt, validate)
Load(rule, serialized, fmt, do_validate) ==
    /\ last' = Call("load", rule, 0, fmt, None, do_validate, serialized,
                    load(rule, serialized, fmt, do_validate, None).ret, FALSE, FALSE,
                    load(rule, serialized, fmt, do_validate, None).called)
    /\ UNCHANGED <<asn, short_circuit, finalized, engine, heap, proc>>

Next ==
    \/ \E rule \in Rules, acid_type \in AcidTypes : Construct(rule, acid_type)
    \/ \E rule \in Rules, acid_type \in AcidTypes, item \in Items : Create(rule, acid_type, item)
    \/ \E item \in Items : Add(item)
    \/ Finalize

Spec == Init /\ [][Next]_vars

\* The classes the serialization boundary is exercised on: two rules with a
\* schema and the base class, which has none
IORules == {"Asn_Lv2MIRLRSFixedSlitNod", "Asn_Lv2ImageTSO", "Association"}

\* The serialization boundary: validate, dump and load called on the
\* associations that __init__ and create produce
InitIO ==
    /\ proc = NoProc
    /\ short_circuit \in BOOLEAN
    /\ asn \in { Association(rule, "observation") : rule \in IORules }
              \cup { create(rule, "observation", short_circuit, item).asn :
                        rule \in IORules, item \in Items }
    /\ asn.rule # None
    /\ finalized = FALSE
    /\ last = NoCall
    /\ engine = IdleEngine
    /\ heap = NoHeap

NextIO ==
    \/ Validate
    \/ \E fmt \in Formats, kwformat \in {None, "yaml"} : Dump(fmt, kwformat)
    \/ \E rule \in IORules, serialized \in SerializedInputs \cup Dumped(last), fmt \in Formats,
          do_validate \in BOOLEAN : Load(rule, serialized, fmt, do_validate)

SpecIO == InitIO /\ [][NextIO]_vars

\* ------------------------------------------------------------------------
\* Third specification: the engine works a pool of exposures down
\* ------------------------------------------------------------------------

\* The pools of n different exposures, in every order
Pools(n) ==
    { p \in [1..n -> EngineItems] : \A j, k \in 1..n : j # k => p[j].id # p[k].id }

InitEngine ==
    /\ proc = NoProc
    /\ asn = NoAssociation
    /\ short_circuit \in BOOLEAN
    /\ finalized = FALSE
    /\ last = NoCall
    /\ heap = NoHeap
    /\ \E n \in 1..MaxPool : \E pool \in Pools(n) :
          engine = [IdleEngine EXCEPT !.pool = pool]

\* Step 1: the head of the pool is popped and offered
Offer ==
    /\ engine.pool # <<>>
    /\ engine' = offer([engine EXCEPT !.pool = Tail(@)], short_circuit, Head(engine.pool))
    /\ UNCHANGED <<asn, short_circuit, finalized, last, heap, proc>>

\* Step 3: the pool is empty, the head of the queue is popped and its item
\* offered again
Drain ==
    /\ engine.pool = <<>>
    /\ engine.queue # <<>>
    /\ engine' = reoffer([engine EXCEPT !.queue = Tail(@)], short_circuit, Head(engine.queue))
    /\ UNCHANGED <<asn, short_circuit, finalized, last, heap, proc>>

NextEngine ==
    \/ Offer
    \/ Drain

SpecEngine == InitEngine /\ [][NextEngine]_vars

\* ------------------------------------------------------------------------
\* Properties
\* ------------------------------------------------------------------------

\* The state of an association that the claims speak of: the document, every
\* node's expected value and found_values, and the init-hook flag
Bindings(a) ==
    [ id \in DOMAIN a.constraints |->
        [value |-> a.constraints[id].value, found_values |-> a.constraints[id].found_values] ]

AsnState(a) == [data |-> a.data, bindings |-> Bindings(a), run_init_hook |-> a.run_init_hook]

\* The document conforms to the rule's schema, or the rule has none
Valid(a) == ~HasSchemaFile(a.rule) \/ jsonschema_validate(a.data)

\* An add call on a non-member item that returned (the tree was evaluated)
AddReturned(c) == c.op = "add" /\ c.ret.kind = "return"

\* C1 as stated: whenever add returns matched = false, the document, the
\* bindings and the init-hook flag are what they were before the call.
C1_RejectedByReturn ==
    [][(AddReturned(last') /\ ~last'.ret.match) => AsnState(asn') = AsnState(asn)]_vars

\* C1 amended: whenever the constraint check of add does not match, the
\* document, the bindings and the init-hook flag are what they were before the
\* call, whatever add returns.
C1_RejectedByCheck ==
    [][(AddReturned(last') /\ last'.evaluated /\ ~last'.verdict)
          => AsnState(asn') = AsnState(asn)]_vars

\* C1 witness: an association with members has rejected an item
C1_Witness ==
    /\ AddReturned(last) /\ last.evaluated /\ ~last.verdict /\ ~last.ret.match
    /\ asn.from_items # {}

\* C2: add of a member returns (True, []) without evaluating the tree and
\* leaves the association as it is; an add that repeats the previous add
\* leaves the association as the first one left it.
C2_AddIdempotent ==
    [][last'.op = "add" =>
          /\ last'.item \in asn.from_items =>
                /\ last'.ret = ReturnPair(TRUE, <<>>)
                /\ ~last'.evaluated
                /\ asn' = asn
          /\ (last.op = "add" /\ last.item = last'.item) => asn' = asn]_vars

\* C2 witness: a member has been added again
C2_Witness ==
    /\ last.op = "add" /\ last.item \in asn.from_items
    /\ ~last.evaluated /\ last.ret.match

\* C3: create returns what one add on a fresh association of the rule gives:
\* None when add reports no match, the association when it reports a match,
\* and in both cases the reprocess list of add.
C3_CreateReturnsAdd ==
    (last.op = "create" /\ last.ret.kind = "return") =>
        /\ add(Association(last.rule, last.fmt), short_circuit, ItemById(last.item),
               TRUE).ret.kind = "return"
        /\ last.ret.reprocess =
              add(Association(last.rule, last.fmt), short_circuit, ItemById(last.item),
                  TRUE).ret.reprocess
        /\ IF add(Association(last.rule, last.fmt), short_circuit, ItemById(last.item),
                  TRUE).ret.match
           THEN /\ last.ret.value = "asn"
                /\ asn = add(Association(last.rule, last.fmt), short_circuit,
                             ItemById(last.item), TRUE).asn
           ELSE /\ last.ret.value = None
                /\ asn = NoAssociation

\* C3 witness: create has returned with reprocess requests
C3_Witness == last.op = "create" /\ last.ret.kind = "return" /\ Len(last.ret.reprocess) > 0

\* C4: the init hook has run at most once; it has run exactly when an item
\* has been merged, for the first merged item and before that item was merged.
C4_InitHookOnce ==
    asn.rule # None =>
        /\ Len(asn.hook_log) <= 1
        /\ (Len(asn.hook_log) = 1) = (asn.from_items # {})
        /\ (Len(asn.hook_log) = 1) = ~asn.run_init_hook
        /\ Len(asn.hook_log) = 1 =>
              /\ asn.hook_log[1].members = 0
              /\ Members(asn)[1].expname = ItemById(asn.hook_log[1].item).expname

\* C4 witness: a second item has been merged and the hook has run once
C4_Witness == Len(Members(asn)) >= 2 /\ Len(asn.hook_log) = 1

\* C5: when add has evaluated the tree, it returns the value of force_match
\* if that node exists and is bound, and the verdict of the tree otherwise.
C5_ForceMatchOverrides ==
    (AddReturned(last) /\ last.evaluated) =>
        last.ret.match = IF force_match_value(asn) # None
                         THEN force_match_value(asn) = "True"
                         ELSE last.verdict

\* C5 witness: the tree matched and add returned the False of force_match
C5_Witness ==
    /\ AddReturned(last) /\ last.evaluated
    /\ last.verdict /\ ~last.ret.match /\ force_match_value(asn) = "False"

\* C6 as stated: finalize returns the association itself when it is valid and
\* None when it is not, and never raises.
C6_ReturnsSelf ==
    last.op = "finalize" =>
        /\ last.ret.kind = "return"
        /\ last.ret.value = IF Valid(asn) THEN "self" ELSE None

\* C6 amended: finalize returns a one-element list that holds the
\* association when it is valid and None when it is not, and never raises.
C6_ReturnsListOfSelf ==
    last.op = "finalize" =>
        /\ last.ret.kind = "return"
        /\ last.ret.value = IF Valid(asn) THEN "[self]" ELSE None

\* C6 witness: an association that is not valid has been finalized
C6_Witness == last.op = "finalize" /\ ~Valid(asn) /\ last.ret.value = None

\* C7 as stated: once finalize has returned, no add changes the document or
\* the bindings.
C7_ImmutableOnceFinalized ==
    [][(finalized /\ last'.op = "add") => AsnState(asn') = AsnState(asn)]_vars

\* C7 amended: finalize itself changes nothing of the association (document,
\* bindings, init-hook flag, members); it does not seal it.
C7_FinalizeChangesNothing ==
    [][last'.op = "finalize" => (asn' = asn /\ finalized')]_vars

\* C7 witness: a valid association has been finalized
C7_Witness == finalized /\ last.op = "finalize" /\ last.ret.value = "[self]"

\* The format dump uses: fmt, else the format keyword, else json
DumpFormat(c) == IF c.fmt # None THEN c.fmt ELSE IF c.kwformat # None THEN c.kwformat ELSE "json"

\* C8: dump on an association that is not valid raises AssociationNotValidError
\* and calls no serializer; on a valid one it returns what the serializer of
\* the requested (registered) format gives, json when no format is given.
C8_DumpNeedsValid ==
    last.op = "dump" =>
        /\ ~Valid(asn) =>
              /\ last.ret.kind = "raise" /\ last.ret.exc = "AssociationNotValidError"
              /\ last.called = <<>>
        /\ (Valid(asn) /\ Registered(DumpFormat(last))) =>
              /\ last.ret.kind = "return"
              /\ last.called = <<DumpFormat(last)>>
              /\ last.ret.payload = format_dump(DumpFormat(last), asn)
        /\ (last.fmt = None /\ last.kwformat = None /\ Valid(asn)) => last.called = <<"json">>

\* C8 witness: dump has failed on an association that is not valid
C8_Witness ==
    last.op = "dump" /\ ~Valid(asn) /\ last.ret.exc = "AssociationNotValidError"

\* Some member's expname has a directory component
HasPathMember(data) ==
    \E k \in 1..Len(data.products) : \E m \in 1..Len(data.products[k].members) :
        Path_parent(data.products[k].members[m].expname) # "."

\* C9: validation of a schema-conforming document with a path in a member's
\* expname returns True and emits a warning.
C9_PathIsWarning ==
    (last.op = "validate" /\ HasSchemaFile(asn.rule) /\ jsonschema_validate(asn.data)
       /\ HasPathMember(asn.data)) =>
        /\ last.ret.kind = "return" /\ last.ret.value = "True"
        /\ "UserWarning: path information" \in last.ret.warnings
        /\ is_valid(asn)

\* C9 witness: a document with a path in an expname has been validated
C9_Witness ==
    /\ last.op = "validate" /\ HasPathMember(asn.data)
    /\ "UserWarning: path information" \in last.ret.warnings

\* C10: load with a registered fmt calls that format's loader and no other,
\* and fails with AssociationNotValidError when that loader rejects the input.
C10_LoadOnlyGivenFormat ==
    (last.op = "load" /\ last.fmt # None /\ Registered(last.fmt)) =>
        /\ last.called = <<last.fmt>>
        /\ ~Parses(last.fmt, last.arg.syntax) =>
              last.ret.kind = "raise" /\ last.ret.exc = "AssociationNotValidError"

\* C10 witness: load as json has failed on a text that the yaml loader reads
C10_Witness ==
    /\ last.op = "load" /\ last.fmt = "json" /\ last.arg.syntax = "yaml"
    /\ Parses("yaml", last.arg.syntax)
    /\ last.ret.kind = "raise" /\ last.ret.exc = "AssociationNotValidError"

\* The loaders a load call may use: the one of fmt, or every registered one
Candidates(c) == IF c.fmt = None THEN ioregistry ELSE <<c.fmt>>

\* The loader of format f accepts the text
Accepts(f, text) == format_load(f, text).kind = "return"

\* C11: load with no fmt calls the registered loaders in registration order
\* up to the first one that accepts the text and no further; every loader
\* called before it failed; what that loader gave is what load returns.
C11_LoadFirstThatParses ==
    (last.op = "load" /\ last.fmt = None) =>
        /\ Len(last.called) <= Len(ioregistry)
        /\ \A k \in 1..Len(last.called) : last.called[k] = ioregistry[k]
        /\ \A k \in 1..(Len(last.called) - 1) : ~Accepts(last.called[k], last.arg)
        /\ \A k \in 1..Len(ioregistry) :
              (Accepts(ioregistry[k], last.arg)
                 /\ \A j \in 1..(k - 1) : ~Accepts(ioregistry[j], last.arg)) =>
                    /\ Len(last.called) = k
                    /\ ~last.flag => last.ret.kind = "return"
                    /\ last.ret.kind = "return" =>
                          last.ret.payload = format_load(ioregistry[k], last.arg).payload

\* C11 witness: the first loader has accepted a text that the second one
\* reads too, and the second one was not called
C11_Witness ==
    /\ last.op = "load" /\ last.fmt = None /\ last.ret.kind = "return"
    /\ last.called = <<"json">> /\ Accepts("yaml", last.arg)

\* C12: when every candidate loader rejects the text, and when there is no
\* loader at all, load raises AssociationNotValidError and gives no association.
C12_LoadFailure ==
    (last.op = "load" /\ (last.fmt # None => Registered(last.fmt))) =>
        /\ (\A k \in 1..Len(Candidates(last)) : ~Accepts(Candidates(last)[k], last.arg)) =>
              /\ last.ret = Raise("AssociationNotValidError", {})
              /\ last.called = Candidates(last)
        /\ load_validate(last.rule, last.flag, try_formats(<<>>, 1, last.arg, <<>>)) =
              [ret |-> Raise("AssociationNotValidError", {}), called |-> <<>>]

\* C12 witness: both registered loaders were called and rejected the text
C12_Witness ==
    /\ last.op = "load" /\ last.fmt = None /\ last.called = ioregistry
    /\ \A k \in 1..Len(ioregistry) : ~Accepts(ioregistry[k], last.arg)
    /\ last.ret.kind = "raise" /\ last.ret.exc = "AssociationNotValidError"

ForceUniqueIds(rule) ==
    { id \in LeafIds(rule) : Tree(rule)[id].kind = "attr" /\ Tree(rule)[id].force_unique }

\* The value node id resolves from an item
Resolved(rule, id, item) == Resolve(item, Tree(rule)[id].sources)

\* C14: in an association with members, every force_unique node is bound to
\* the escaped value V that each member presents; an add keeps that binding,
\* and an item that presents another value is rejected by the node and by add,
\* which leaves the association as it was, also when the value is one of the
\* alternatives the node was declared with.
C14_ForceUniqueBinds ==
    [][(asn.rule # None /\ asn.from_items # {} /\ last'.op = "add") =>
          \A id \in ForceUniqueIds(asn.rule) :
              /\ \A i \in asn.from_items :
                    asn.constraints[id].value = re_escape(Resolved(asn.rule, id, ItemById(i)))
              /\ asn'.constraints[id].value = asn.constraints[id].value
              /\ Resolved(asn.rule, id, ItemById(last'.item)) \notin asn.constraints[id].value.alts =>
                    /\ ~AttrConstraint_check_and_set(Tree(asn.rule)[id], asn.constraints[id],
                                                     asn.constraints, ItemById(last'.item)).match
                    /\ ~last'.ret.match
                    /\ AsnState(asn') = AsnState(asn)]_vars

\* C14 witness: an association bound to one nod pattern has rejected an item
\* of the other pattern of the alternation
C14_Witness ==
    /\ asn.rule = "Asn_Lv2NRSIFUNod" /\ asn.from_items # {}
    /\ last.op = "add" /\ last.evaluated /\ ~last.verdict
    /\ ItemById(last.item).patttype \in Tree(asn.rule)["patttype"].value.alts
    /\ ItemById(last.item).patttype \notin asn.constraints["patttype"].value.alts

\* The DMSAttrConstraint nodes of a rule declared without a value
UnboundIds(rule) ==
    { id \in LeafIds(rule) : Tree(rule)[id].kind = "attr" /\ Tree(rule)[id].value = Unbound }

\* C15 as stated: a node declared without a value and with force_unique false
\* stays Unbound after it has matched, the value being recorded in found_values.
C15_UnboundStaysUnbound ==
    asn.rule # None =>
        \A id \in UnboundIds(asn.rule) :
            (asn.constraints[id].found_values # {} /\ ~Tree(asn.rule)[id].force_unique) =>
                asn.constraints[id].value = Unbound

\* r is what match_constraint gave for value v on an Unbound node: a match,
\* the node bound to the escaped v, v recorded, force_unique cleared
FixedTo(r, v) ==
    /\ r.match
    /\ r.st.value = re_escape(v)
    /\ re_escape(v) \in r.st.found_values
    /\ ~r.st.force_unique

\* C15 amended: a node whose expected value is Unbound matches any resolved
\* value and is bound by that match to the escaped value, with force_unique
\* true and with force_unique false alike; a node declared without a value that
\* has matched for a member is bound to a recorded value, and an item that
\* presents another value does not match it.
C15_UnboundIsBound ==
    asn.rule # None =>
        \A id \in UnboundIds(asn.rule) :
            /\ asn.constraints[id].value = Unbound =>
                  \A item \in Items, force_unique \in BOOLEAN :
                      Resolved(asn.rule, id, item) # Absent =>
                          FixedTo(match_constraint(Resolved(asn.rule, id, item),
                                                   [asn.constraints[id] EXCEPT
                                                       !.force_unique = force_unique],
                                                   asn.constraints),
                                  Resolved(asn.rule, id, item))
            /\ asn.constraints[id].found_values # {} =>
                  /\ asn.constraints[id].value.kind = "esc"
                  /\ asn.constraints[id].value \in asn.constraints[id].found_values
                  /\ ~asn.constraints[id].force_unique
                  /\ \A item \in Items :
                        Resolved(asn.rule, id, item) \notin asn.constraints[id].value.alts =>
                            ~AttrConstraint_check_and_set(Tree(asn.rule)[id], asn.constraints[id],
                                                         asn.constraints, item).match

\* C15 witness: the program node, declared without a value and with
\* force_unique false, is bound, and an item of another program was rejected
C15_Witness ==
    /\ asn.rule = "Asn_Lv2MIRLRSFixedSlitNod" /\ asn.from_items # {}
    /\ ~Tree(asn.rule)["program"].force_unique
    /\ asn.constraints["program"].value = re_escape("p1")
    /\ last.op = "add" /\ last.evaluated /\ ~last.verdict
    /\ ItemById(last.item).program = "p2"

\* C16: a node none of whose sources the item carries evaluates to true when it
\* is not required and to false when it is; Asn_Lv2NRSLAMPImage, whose opmode
\* node is not required, gives an item without opmode the verdict it gives the
\* same item with the expected opmode, and rejects an item without grating,
\* which is required.
C16_VacuousOptionalPass ==
    /\ asn.rule # None =>
          \A id \in LeafIds(asn.rule), item \in Items :
              (Tree(asn.rule)[id].kind = "attr" /\ Resolved(asn.rule, id, item) = Absent) =>
                  AttrConstraint_check_and_set(Tree(asn.rule)[id], asn.constraints[id],
                                               asn.constraints, item).match
                     = ~Tree(asn.rule)[id].required
    /\ (last.op = "create" /\ last.rule = "Asn_Lv2NRSLAMPImage") =>
          /\ ItemById(last.item).opmode = Absent =>
                last.verdict = create(last.rule, last.fmt, short_circuit,
                                      With(ItemById(last.item), "opmode", "image")).added.verdict
          /\ ItemById(last.item).grating = Absent => ~last.verdict

\* C16 witness: an association was created from an item without opmode
C16_Witness ==
    /\ last.op = "create" /\ last.rule = "Asn_Lv2NRSLAMPImage"
    /\ ItemById(last.item).opmode = Absent
    /\ last.verdict /\ last.ret.value = "asn" /\ asn.from_items = {last.item}

\* The association a create or add call worked on
Before(a, c) == IF c.op = "create" THEN Association(c.rule, c.fmt) ELSE a

CompositeIds(rule) == DOMAIN Tree(rule) \ LeafIds(rule)

\* The truth tables, on the number of true and of false results
TruthTable(op, results) ==
    CASE op = "all" -> Cardinality({ k \in 1..Len(results) : ~results[k] }) = 0
      [] op = "any" -> Cardinality({ k \in 1..Len(results) : results[k] }) >= 1
      [] op = "notany" -> Cardinality({ k \in 1..Len(results) : results[k] }) = 0
      [] op = "notall" -> Cardinality({ k \in 1..Len(results) : ~results[k] }) >= 1

\* The results the children of node id give for an item, each one evaluated
ChildResults(a, id, item) ==
    check_children(a, FALSE, Tree(a.rule)[id].kind, Tree(a.rule)[id].children, 1,
                   a.constraints, item, <<>>, <<>>).results

\* C18: for every Constraint node of the association's tree and every item, the
\* node's result is the truth table of its operator on the results of its
\* children: ALL true iff every child is true, ANY iff at least one is, NOTANY
\* iff none is, NOTALL iff at least one is false.  Asn_Lv2WFSC, whose last
\* constraint is NOTALL of the jitter note and the NIRCam image type, accepts a
\* wavefront sensing image unless it carries both.
C18_ReduceTruthTables ==
    /\ (asn.rule # None /\ Implements(asn.rule)) =>
          \A id \in CompositeIds(asn.rule), item \in Items :
              Constraint_check_and_set(asn, short_circuit, id, asn.constraints, item).match
                 = TruthTable(Tree(asn.rule)[id].kind, ChildResults(asn, id, item))
    /\ (last.op = "create" /\ last.rule = "Asn_Lv2WFSC"
           /\ ItemById(last.item).visitype = "prime_wfsc_sensing_control") =>
          last.verdict = ~(/\ ItemById(last.item).dms_note = "wfsc_los_jitter"
                           /\ ItemById(last.item).exp_type = "nrc_image")

\* C18 witness: Asn_Lv2WFSC has accepted an image whose NOTALL constraint had
\* one child true and one child false, and rejects the image that has both
C18_Witness ==
    /\ last.op = "create" /\ last.rule = "Asn_Lv2WFSC" /\ last.ret.value = "asn"
    /\ ChildResults(Association(last.rule, last.fmt), "not_jitter_image", ItemById(last.item))
          = <<TRUE, FALSE>>
    /\ ChildResults(asn, "not_jitter_image", ItemById(16)) = <<TRUE, TRUE>>
    /\ ~Constraint_check_and_set(asn, short_circuit, "not_jitter_image", asn.constraints,
                                 ItemById(16)).match

\* ------------------------------------------------------------------------
\* Fourth specification: one association is offered every item, and two
\* associations of the same rule are offered only the items it took.  The
\* first twin is given the items whose constraint check matched (and the
\* members offered again), the second the items for which add returned True.
\* ------------------------------------------------------------------------

Twins(a) == [IdleEngine EXCEPT !.asns = <<a, a>>]

InitOrder ==
    /\ proc = NoProc
    /\ short_circuit \in BOOLEAN
    /\ finalized = FALSE
    /\ last = NoCall
    /\ heap = NoHeap
    /\ \E rule \in Lv2Rules :
          /\ asn = Association(rule, "observation")
          /\ engine = Twins(Association(rule, "observation"))

\* Was the item taken by the add that gave r: its check matched, or it was a
\* member already
TakenByCheck(r) == r.ret.kind = "return" /\ (r.verdict \/ ~r.evaluated)

\* Did the add that gave r return matched = True?
TakenByReturn(r) == r.ret.kind = "return" /\ r.ret.match

\* The twins after the association's add gave r
OfferTwins(twins, short, item, r) ==
    <<IF TakenByCheck(r) THEN add(twins[1], short, item, TRUE).asn ELSE twins[1],
      IF TakenByReturn(r) THEN add(twins[2], short, item, TRUE).asn ELSE twins[2]>>

\* The state after the association's add gave r
OfferAllEnds(item, r) ==
    /\ asn' = r.asn
    /\ last' = Call("add", asn.rule, item.id, None, None, TRUE, NoPayload, r.ret,
                    r.evaluated, r.verdict, <<>>)
    /\ engine' = [engine EXCEPT !.asns = OfferTwins(engine.asns, short_circuit, item, r)]
    /\ UNCHANGED <<short_circuit, finalized, heap, proc>>

\* asn.add(item), and add(item) on the twins that are to have it
OfferAll(item) ==
    /\ Len(Members(asn)) < MaxMembers
    /\ OfferAllEnds(item, add(asn, short_circuit, item, TRUE))

NextOrder == \E item \in Items : OfferAll(item)

SpecOrder == InitOrder /\ [][NextOrder]_vars

\* ------------------------------------------------------------------------
\* Fifth specification: a caller that holds an association of a rule and
\* calls add with and without the constraint check
\* ------------------------------------------------------------------------

\* The exposures and the rules of the callers that skip the check
UncheckedItems == { i \in Items : i.id \in {1, 2, 6, 19} }

UncheckedRules == {"Asn_Lv2MIRLRSFixedSlitNod", "Asn_Lv2ImageTSO"}

InitUnchecked ==
    /\ proc = NoProc
    /\ short_circuit \in BOOLEAN
    /\ finalized = FALSE
    /\ last = NoCall
    /\ engine = IdleEngine
    /\ heap = NoHeap
    /\ \E rule \in UncheckedRules : asn = Association(rule, "observation")

\* The caller's state after add(item, check_constraints=False) ended with r:
\* the association is the object add worked on, whatever add ended with
AddUncheckedEnds(item, r) ==
    /\ asn' = r.asn
    /\ last' = Call("add", asn.rule, item.id, None, None, FALSE, NoPayload, r.ret,
                    r.evaluated, r.verdict, <<>>)
    /\ UNCHANGED <<short_circuit, finalized, engine, heap, proc>>

\* asn.add(item, check_constraints=False)
AddUnchecked(item) ==
    /\ Len(Members(asn)) < MaxMembers
    /\ AddUncheckedEnds(item, add(asn, short_circuit, item, FALSE))

NextUnchecked ==
    \E item \in UncheckedItems :
        \/ Add(item)
        \/ AddUnchecked(item)

SpecUnchecked == InitUnchecked /\ [][NextUnchecked]_vars

\* ------------------------------------------------------------------------
\* Sixth specification: two associations of rule classes that were given a
\* GLOBAL_CONSTRAINT, and add calls on them in any interleaving.  heap.cells
\* holds the state of the constraint objects by address: address 0 is the
\* object the class attribute names, heap.ref[k] is the object that the tree
\* of association k ends with.
\* ------------------------------------------------------------------------

\* The constraint the caller has set as GLOBAL_CONSTRAINT of the rule classes:
\* the instrument, fixed by the first member
GLOBAL_CONSTRAINT == DMSAttrConstraint(<<"instrume">>, Unbound, TRUE)

ClassObject == 0

Instances == {1, 2}

FreshCell(n) ==
    [value |-> n.value, found_values |-> {}, force_unique |-> n.force_unique,
     matched |-> FALSE]

\* Mutant of Constraint_copy: the instance is handed the object of the class
Constraint_copy_SameObject(k) == ClassObject

\* Line 112, in __init__ of instance k: GLOBAL_CONSTRAINT.copy() is a new
\* object, at an address of its own
Constraint_copy(k) == k

SharedRules == {"Asn_Lv2MIRLRSFixedSlitNod", "Asn_Lv2Image"}

InitShared ==
    /\ proc = NoProc
    /\ asn = NoAssociation
    /\ short_circuit \in BOOLEAN
    /\ finalized = FALSE
    /\ last = NoCall
    /\ heap = [cells |-> [addr \in {ClassObject} \cup Instances |-> FreshCell(GLOBAL_CONSTRAINT)],
               ref |-> [k \in Instances |-> Constraint_copy(k)]]
    /\ \E r1 \in SharedRules, r2 \in SharedRules :
          engine = [IdleEngine EXCEPT !.asns = <<Association(r1, "observation"),
                                                 Association(r2, "observation")>>]

\* The appended constraint is the last child of the tree: it is evaluated
\* when the rule's own children matched, or when every child is evaluated
global_check(short, cs, cell, b, item) ==
    IF cs.match \/ ~short
    THEN AttrConstraint_check_and_set(GLOBAL_CONSTRAINT, cell, b, item)
    ELSE [st |-> cell, match |-> FALSE]

\* Lines 409-420 on the tree with the appended constraint: cs is what the
\* rule's own children gave, g what the appended constraint gave; on a miss
\* everything is restored
checked_with_global(a, cell, item, cs, g) ==
    [cs |-> IF cs.match /\ g.match
            THEN cs
            ELSE [asn |-> a, match |-> FALSE, reprocess |-> cs.reprocess],
     cell |-> IF cs.match /\ g.match THEN g.st ELSE cell]

\* Lines 374-390 after the check gave c
added_with_global(item, c) ==
    [added |-> add_after_check(item, TRUE, c.cs), cell |-> c.cell]

check_with_global(a, cell, short, item, cs) ==
    added_with_global(item, checked_with_global(a, cell, item, cs,
                                                global_check(short, cs, cell, a.constraints,
                                                             item)))

\* add(item) on an association whose tree ends with the object in cell
add_with_global(a, cell, short, item) ==
    IF is_item_member(a, item)
    THEN [added |-> [asn |-> a, ret |-> ReturnPair(TRUE, <<>>), evaluated |-> FALSE,
                     verdict |-> FALSE],
          cell |-> cell]
    ELSE check_with_global(a, cell, short, item, check_and_set_constraints(a, short, item))

\* The state after add on association k gave r
AddOnEnds(k, item, r) ==
    /\ engine' = [engine EXCEPT !.asns[k] = r.added.asn]
    /\ heap' = [heap EXCEPT !.cells[heap.ref[k]] = r.cell]
    /\ last' = Call("add", engine.asns[k].rule, item.id, None, None, TRUE, NoPayload,
                    r.added.ret, r.added.evaluated, r.added.verdict, <<>>)
    /\ UNCHANGED <<asn, short_circuit, finalized, proc>>

\* engine.asns[k].add(item)
AddOn(k, item) ==
    /\ Len(Members(engine.asns[k])) < MaxMembers
    /\ AddOnEnds(k, item, add_with_global(engine.asns[k], heap.cells[heap.ref[k]],
                                          short_circuit, item))

NextShared == \E k \in Instances, item \in UncheckedItems : AddOn(k, item)

SpecShared == InitShared /\ [][NextShared]_vars

\* ------------------------------------------------------------------------
\* C19: match_all offers the item to create on every registered variant, and
\* each variant decides on its own.  After an item was offered, every variant
\* none of whose associations accepted it has spawned an association exactly
\* when create on that variant alone accepts the item, whatever the other
\* variants said; and the item is a member of an association of every variant
\* that spawned one.
\* ------------------------------------------------------------------------
RegisteredRules == { RuleRegistry[k] : k \in 1..Len(RuleRegistry) }

Offered == engine.step.op = "offer"

AcceptsAlone(rule, item) == create(rule, "observation", short_circuit, item).ret.value = "asn"

HoldsItem(rule, id) ==
    \E k \in 1..Len(engine.asns) : engine.asns[k].rule = rule /\ id \in engine.asns[k].from_items

C19_VariantsDecideIndependently ==
    Offered =>
        \A rule \in RegisteredRules \ engine.step.accepted :
            /\ (rule \in engine.step.spawned) = AcceptsAlone(rule, EngineItem(engine.step.item))
            /\ (rule \in engine.step.spawned) => HoldsItem(rule, engine.step.item)

\* One item was accepted by several variants in one pass while another
\* variant turned it down
C19_Witness ==
    /\ Offered
    /\ Cardinality(engine.step.spawned) >= 2
    /\ \E rule \in RegisteredRules : rule \notin engine.step.spawned \cup engine.step.accepted
    /\ \A rule \in engine.step.spawned : HoldsItem(rule, engine.step.item)

\* ------------------------------------------------------------------------
\* C20: the pending queue never holds two requests of one (item, category)
\* key, and after every step the trigger_rules of a queued request is the
\* union of the trigger_rules of the request queued under its key before the
\* step and of the requests of its key that the step returned.
\* ------------------------------------------------------------------------
NoDuplicateKeys ==
    \A j, k \in 1..Len(engine.queue) :
        j # k => RequestKey(engine.queue[j]) # RequestKey(engine.queue[k])

\* The trigger_rules of the requests of the sequence that have the key
TriggersOf(requests, key) ==
    UNION { requests[k].trigger_rules :
              k \in { j \in 1..Len(requests) : RequestKey(requests[j]) = key } }

\* The queue a step merges into: a drain step has popped the head first
QueueBefore == IF engine'.step.op = "drain" THEN Tail(engine.queue) ELSE engine.queue

MergeIsUnion ==
    /\ \A k \in 1..Len(engine'.queue) :
          engine'.queue[k].trigger_rules =
              TriggersOf(QueueBefore, RequestKey(engine'.queue[k]))
                 \cup TriggersOf(engine'.step.requests, RequestKey(engine'.queue[k]))
    /\ \A k \in 1..Len(engine'.step.requests) :
          \E j \in 1..Len(engine'.queue) :
              RequestKey(engine'.queue[j]) = RequestKey(engine'.step.requests[k])

C20_QueueMergedByKey == []NoDuplicateKeys /\ [][MergeIsUnion]_vars

\* A step returned two requests of one key, and the queue holds one request
\* of that key whose trigger_rules names the rules of both
C20_Witness ==
    \E j, k \in 1..Len(engine.step.requests) :
        /\ j # k
        /\ RequestKey(engine.step.requests[j]) = RequestKey(engine.step.requests[k])
        /\ engine.step.requests[j].trigger_rules # engine.step.requests[k].trigger_rules
        /\ \E q \in 1..Len(engine.queue) :
              /\ RequestKey(engine.queue[q]) = RequestKey(engine.step.requests[j])
              /\ engine.queue[q].trigger_rules =
                    engine.step.requests[j].trigger_rules
                       \cup engine.step.requests[k].trigger_rules

\* ------------------------------------------------------------------------
\* C21: the worklist loop terminates.  With the evaluation order of the code
\* (a Constraint stops at the child that decides its result) every step of
\* the loop makes a variant smaller that is a natural number: an offer takes
\* an item from the pool and queues at most one request for each category a
\* rule works over, a drain step takes a request from the queue and queues
\* none.  So no run takes more than Variant steps, and what is left when no
\* step can be taken is the state in which the pool and the queue are empty,
\* the only state where neither Offer nor Drain has its guard.
\* ------------------------------------------------------------------------
Terminated == engine.pool = <<>> /\ engine.queue = <<>>

\* The categories the registered rules raise requests for
Categories == {EXISTING, NONSCIENCE}

Variant == Len(engine.pool) * (1 + Cardinality(Categories)) + Len(engine.queue)

C22_ReturnedFalseLeavesNoTrace == AsnState(asn) = AsnState(engine.asns[2])

\* C22 amended: the association that was offered every item, the items its
\* constraint check turned down among them, in any order and any number of
\* times, has the document, the bindings and the init-hook flag of the
\* association that was offered only the items whose check matched, in the
\* same order.
C22_RejectsLeaveNoTrace == AsnState(asn) = AsnState(engine.asns[1])

\* An association with two members has just turned an item down
C22_Witness ==
    /\ AddReturned(last) /\ last.evaluated /\ ~last.verdict
    /\ Len(Members(asn)) >= 2
    /\ Len(Members(engine.asns[1])) >= 2

\* ------------------------------------------------------------------------
\* C23 as stated: the direct image has arrived and a WFSS variant holds it;
\* when the grism exposure is then offered and matches, a request of the
\* non-science category is raised.
\* ------------------------------------------------------------------------
NonScienceRequests(requests) ==
    { k \in 1..Len(requests) : requests[k].work_over = NONSCIENCE }

GrismOffered == engine.step.op = "offer" /\ engine.step.item = Grism

HoldsBoth(rule) ==
    \E k \in 1..Len(engine.asns) :
        /\ engine.asns[k].rule = rule
        /\ {DirectImage, Grism} \subseteq engine.asns[k].from_items

Queued(item, work_over, rule) ==
    \E k \in 1..Len(engine.queue) :
        /\ RequestKey(engine.queue[k]) = <<item, work_over>>
        /\ rule \in engine.queue[k].trigger_rules

DirectImageRaisesRequest ==
    (engine.step.op = "offer" /\ engine.step.item = DirectImage)
        => \A rule \in WFSSRules :
              /\ HoldsItem(rule, DirectImage)
              /\ Queued(DirectImage, NONSCIENCE, rule)

GrismRaisesNone == GrismOffered => NonScienceRequests(engine.step.requests) = {}

TakenTogether ==
    \A rule \in WFSSRules :
        (HoldsItem(rule, DirectImage) /\ HoldsItem(rule, Grism)) => HoldsBoth(rule)

DrainedToItsRules ==
    (/\ engine.pool = <<>>
     /\ engine.queue # <<>>
     /\ RequestKey(Head(engine.queue)) = <<DirectImage, NONSCIENCE>>)
        => /\ engine'.step.op = "drain"
           /\ engine'.step.item = DirectImage
           /\ engine'.step.accepted = Head(engine.queue).trigger_rules
           /\ engine'.step.spawned = {}
           /\ engine'.asns = engine.asns

Unchecked(c) == c.op = "add" /\ ~c.flag

C25_UncheckedAddReturns ==
    [][(Unchecked(last') /\ last'.item \notin asn.from_items)
          => /\ ~last'.evaluated
             /\ last'.item \in asn'.from_items
             /\ last'.ret.kind = "return"
             /\ last'.ret.match]_vars

\* ------------------------------------------------------------------------
\* C29: no add call leaves the association partially mutated: when add ends
\* with an error, the document, the bindings and the init-hook flag are what
\* they were before the call.
\* ------------------------------------------------------------------------
C29_ErrorLeavesNoTrace ==
    [][(last'.op = "add" /\ last'.ret.kind = "raise") => AsnState(asn') = AsnState(asn)]_vars

\* ------------------------------------------------------------------------
\* C27: each association owns the state of its constraint tree, the copy of
\* the GLOBAL_CONSTRAINT included: under every interleaving of add calls on
\* two associations, of the same rule or of two rules, a call changes the
\* document, the bindings, the init-hook flag and the GLOBAL_CONSTRAINT
\* binding of at most one of them.
\* ------------------------------------------------------------------------
View(k) ==
    [state |-> AsnState(engine.asns[k]), global |-> heap.cells[heap.ref[k]]]

ViewAfter(k) ==
    [state |-> AsnState(engine'.asns[k]), global |-> heap'.cells[heap'.ref[k]]]

C27_InstancesOwnTheirBindings ==
    [][\A j, k \in Instances :
          j # k => (ViewAfter(j) = View(j) \/ ViewAfter(k) = View(k))]_vars

\* The two associations have members and their copies of the
\* GLOBAL_CONSTRAINT are bound to different instruments
C27_Witness ==
    /\ heap.ref # <<>>
    /\ \A k \in Instances : Members(engine.asns[k]) # <<>> /\ heap.cells[heap.ref[k]].matched
    /\ heap.cells[heap.ref[1]].value # heap.cells[heap.ref[2]].value

\* ------------------------------------------------------------------------
\* C30: every successful match of a constraint node adds the resolved value
\* to the node's found_values, a failed match adds nothing, and found_values
\* never loses an element from one evaluation of the node to the next.
\* ------------------------------------------------------------------------

\* The DMSAttrConstraint nodes of a rule
AttrIds(rule) == { id \in LeafIds(rule) : Tree(rule)[id].kind = "attr" }

\* What the node id of the association gives when it is evaluated on item
Evaluated(id, item) ==
    AttrConstraint_check_and_set(Tree(asn.rule)[id], asn.constraints[id], asn.constraints, item)

\* A node that matches a resolved value records the escaped value next to
\* the values it found before; a node that does not match, or that passes
\* because the item carries none of its sources, records nothing
Records(r, found_values, evaled_str) ==
    r.st.found_values =
        IF r.match /\ evaled_str # Absent
        THEN found_values \cup {re_escape(evaled_str)}
        ELSE found_values

RecordsItsMatches ==
    asn.rule # None =>
        \A id \in AttrIds(asn.rule), item \in Items :
            Records(Evaluated(id, item), asn.constraints[id].found_values,
                    Resolved(asn.rule, id, item))

\* An evaluation of the whole tree on any item hands back bindings in which
\* every node holds the values it had found before
Keeps(before, after) ==
    \A id \in DOMAIN before : before[id].found_values \subseteq after[id].found_values

TreeKeepsFound ==
    (asn.rule # None /\ Implements(asn.rule)) =>
        \A item \in Items :
            Keeps(asn.constraints,
                  Constraint_check_and_set(asn, short_circuit, "root", asn.constraints, item).b)

\* The value the node id would record for item: none when the item carries
\* none of the node's sources
Gain(id, item) ==
    IF Resolved(asn.rule, id, item) = Absent THEN {} ELSE {re_escape(Resolved(asn.rule, id, item))}

\* From one add to the next a node keeps every value it had found; what a
\* DMSAttrConstraint gains is the value resolved from the item of the add
GrowsByMatches ==
    (last'.op = "add" /\ last'.rule = asn.rule /\ Implements(asn.rule)) =>
        /\ \A id \in DOMAIN asn.constraints :
              asn.constraints[id].found_values \subseteq asn'.constraints[id].found_values
        /\ \A id \in AttrIds(asn.rule) :
              asn'.constraints[id].found_values \subseteq
                  asn.constraints[id].found_values \cup Gain(id, ItemById(last'.item))

Asn_Lv2NRSFSS_subpxpts ==
    DMSAttrConstraint(<<"subpxpns", "subpxpts">>, Unbound, DEFAULT_FORCE_UNIQUE)

\* The values an exposure may carry for either keyword
SubpixelPoints == <<"1", "2", "3", "4">>

\* The k-th value, or no value at all for k = 0
Carried(k) == IF k = 0 THEN Absent ELSE SubpixelPoints[k]

\* The exposures offered: one for every pair of what the two keywords carry
FSSItems ==
    { [id |-> n * (Len(SubpixelPoints) + 1) + t + 1, subpxpns |-> Carried(n),
       subpxpts |-> Carried(t)] :
        n \in 0..Len(SubpixelPoints), t \in 0..Len(SubpixelPoints) }

FSSItemById(id) == CHOOSE i \in FSSItems : i.id = id

InitSources ==
    /\ proc = NoProc
    /\ asn = NoAssociation
    /\ short_circuit \in BOOLEAN
    /\ finalized = FALSE
    /\ last = NoCall
    /\ engine = IdleEngine
    /\ heap = [cells |-> <<FreshCell(Asn_Lv2NRSFSS_subpxpts)>>, ref |-> <<>>]

CheckAndSetEnds(item, r) ==
    /\ heap' = [heap EXCEPT !.cells = <<r.st>>]
    /\ last' = Call("check_and_set", "Asn_Lv2NRSFSS", item.id, None, None, FALSE, NoPayload,
                    ReturnPair(r.match, <<>>), TRUE, r.match, <<>>)
    /\ UNCHANGED <<asn, short_circuit, finalized, engine, proc>>

\* The node is evaluated on item
CheckAndSet(item) ==
    CheckAndSetEnds(item, AttrConstraint_check_and_set(Asn_Lv2NRSFSS_subpxpts, heap.cells[1],
                                                       <<>>, item))

NextSources == \E item \in FSSItems : CheckAndSet(item)

SpecSources == InitSources /\ [][NextSources]_vars

\* ------------------------------------------------------------------------
\* C31: a constraint node resolves its value from the first of its sources
\* that the item carries; a later source is used only when every earlier one
\* is absent from the item.
\* ------------------------------------------------------------------------

\* What the node is to resolve from an exposure that carries subpxpns as ns
\* and subpxpts as ts
FirstPresent(ns, ts) == IF ns # Absent THEN ns ELSE ts

\* The node decided on v: without a source it did not match; unbound, it
\* matched and was bound to v; bound, it matched exactly when v is the value
\* it is bound to; what it recorded on a match is v
DecidedOn(v, before, after, match) ==
    /\ v = Absent => ~match
    /\ (v # Absent /\ before.value = Unbound) => (match /\ after.value = re_escape(v))
    /\ (v # Absent /\ before.value # Unbound) => (match <=> v \in before.value.alts)
    /\ after.found_values = IF match THEN before.found_values \cup {re_escape(v)}
                            ELSE before.found_values

\* C31: every evaluation of the node decides on the value of subpxpns when
\* the exposure carries it, and on the value of subpxpts only when it does not
C31_FirstSourceWins ==
    [][last'.op = "check_and_set" =>
          DecidedOn(FirstPresent(FSSItemById(last'.item).subpxpns,
                                 FSSItemById(last'.item).subpxpts),
                    heap.cells[1], heap'.cells[1], last'.ret.match)]_vars

\* The node, bound to a value, matched an exposure that carries that value as
\* subpxpns and another value as subpxpts
C31_Witness ==
    /\ last.op = "check_and_set"
    /\ last.ret.match
    /\ Absent \notin {FSSItemById(last.item).subpxpns, FSSItemById(last.item).subpxpts}
    /\ FSSItemById(last.item).subpxpns # FSSItemById(last.item).subpxpts
    /\ heap.cells[1].value = re_escape(FSSItemById(last.item).subpxpns)
    /\ Cardinality(heap.cells[1].found_values) = 1

\* ------------------------------------------------------------------------
\* C32: in the initial pass the items are processed in arrival order, each
\* item is first offered to every existing association, and an association
\* of a variant is spawned for an item only if no existing association of
\* that variant accepted the item.
\* ------------------------------------------------------------------------

\* The step taken is one of the initial pass: the pool is not empty
InitialPass == engine.pool # <<>>

\* The item at the head of the pool is the one the step works on
InArrivalOrder ==
    /\ engine'.step.op = "offer"
    /\ engine'.step.item = Head(engine.pool).id
    /\ engine'.pool = Tail(engine.pool)

\* Every association that existed keeps its place and its rule; it holds
\* the item afterwards exactly when its own add took it, and its rule is
\* recorded as having accepted when its add returned a match
ExistingOffered ==
    /\ Len(engine'.asns) >= Len(engine.asns)
    /\ \A k \in 1..Len(engine.asns) :
          /\ engine'.asns[k].rule = engine.asns[k].rule
          /\ AsnState(engine'.asns[k]) =
                AsnState(add(engine.asns[k], short_circuit, Head(engine.pool), TRUE).asn)
          /\ add(engine.asns[k], short_circuit, Head(engine.pool), TRUE).ret.match =>
                engine.asns[k].rule \in engine'.step.accepted

\* The associations the step added are new ones that took the item, of
\* variants none of whose existing associations accepted it, one for each
\* variant at most
SpawnedOnlyUnaccepted ==
    /\ \A k \in (Len(engine.asns) + 1)..Len(engine'.asns) :
          /\ Members(engine'.asns[k]) # <<>>
          /\ engine'.asns[k].from_items = {Head(engine.pool).id}
          /\ engine'.asns[k].rule \notin engine'.step.accepted
          /\ \A j \in 1..Len(engine.asns) :
                engine.asns[j].rule = engine'.asns[k].rule =>
                    ~add(engine.asns[j], short_circuit, Head(engine.pool), TRUE).ret.match
          /\ \A j \in (Len(engine.asns) + 1)..Len(engine'.asns) :
                engine'.asns[j].rule = engine'.asns[k].rule => j = k
    /\ engine'.step.spawned \cap engine'.step.accepted = {}

C32_OfferedBeforeSpawned ==
    [][InitialPass => (InArrivalOrder /\ ExistingOffered /\ SpawnedOnlyUnaccepted)]_vars

\* An item of the pool was accepted by an existing association of one
\* variant while another variant spawned an association for it
C32_Witness ==
    /\ engine.step.op = "offer"
    /\ engine.step.accepted # {}
    /\ engine.step.spawned # {}

\* ------------------------------------------------------------------------
\* C33: when a reprocess request is drained, its item is offered again only
\* to the variants and associations named in its trigger_rules; the
\* associations of every other rule have the same document and bindings
\* after the drain step as before it.
\* ------------------------------------------------------------------------

\* The step taken pops the head of the queue
Draining == engine.pool = <<>> /\ engine.queue # <<>>

\* The step works on the item of the popped request; the rules that accepted
\* or spawned are among its trigger_rules, the associations of the other
\* rules are as they were, and no association of another rule is added
OnlyTriggerRules(request) ==
    /\ engine'.step.op = "drain"
    /\ engine'.step.item = request.item
    /\ engine'.step.accepted \cup engine'.step.spawned \subseteq request.trigger_rules
    /\ Len(engine'.asns) >= Len(engine.asns)
    /\ \A k \in 1..Len(engine.asns) :
          /\ engine'.asns[k].rule = engine.asns[k].rule
          /\ engine.asns[k].rule \notin request.trigger_rules =>
                AsnState(engine'.asns[k]) = AsnState(engine.asns[k])
    /\ \A k \in (Len(engine.asns) + 1)..Len(engine'.asns) :
          engine'.asns[k].rule \in request.trigger_rules

C33_DrainKeepsToTriggerRules == [][Draining => OnlyTriggerRules(Head(engine.queue))]_vars

\* Would the association answer with a match, were it offered the item?
WouldMatch(a, item) == add(a, short_circuit, item, TRUE).ret.match

\* A request was drained and an association that would answer its item
\* with a match, being of a rule outside trigger_rules, was not offered it
C33_Witness ==
    /\ engine.step.op = "drain"
    /\ \E k \in 1..Len(engine.asns) :
          /\ engine.asns[k].rule \notin engine.step.accepted \cup engine.step.spawned
          /\ WouldMatch(engine.asns[k], EngineItem(engine.step.item))

\* ------------------------------------------------------------------------
\* C34: every request put in the queue is eventually popped, is processed
\* exactly once, and is not in the queue again afterwards unless a later
\* evaluation raises a new request.
\* ------------------------------------------------------------------------

\* The keys of the requests of a sequence
Keys(requests) == { RequestKey(requests[k]) : k \in 1..Len(requests) }

\* The number of steps of the loop after which the k-th request of the
\* queue is popped: the items of the pool are offered first, then the
\* requests before it are drained
StepsUntilPopped(e, k) == Len(e.pool) + k

\* A queued request that the step does not pop is one step nearer to being
\* popped afterwards
Nearer ==
    \A k \in 1..Len(engine.queue) :
        (Draining /\ k = 1) \/
            \E j \in 1..Len(engine'.queue) :
                /\ RequestKey(engine'.queue[j]) = RequestKey(engine.queue[k])
                /\ StepsUntilPopped(engine', j) = StepsUntilPopped(engine, k) - 1

\* The popped request is processed by the step that pops it: its item is
\* offered again in that step, and the request is queued afterwards only if
\* that step raised it anew
PoppedOnce ==
    Draining =>
        /\ engine'.step.op = "drain"
        /\ engine'.step.item = Head(engine.queue).item
        /\ RequestKey(Head(engine.queue)) \in Keys(engine'.queue) =>
              RequestKey(Head(engine.queue)) \in Keys(engine'.step.requests)

\* A request that was not queued before the step is one the step raised
QueuedWhenRaised ==
    Keys(engine'.queue) \ Keys(engine.queue) \subseteq Keys(engine'.step.requests)

C34_RequestsPoppedOnce ==
    /\ [](\A k \in 1..Len(engine.queue) : StepsUntilPopped(engine, k) \in Nat \ {0})
    /\ [][Nearer /\ PoppedOnce /\ QueuedWhenRaised]_vars

\* A request was popped and processed while another one waited behind it,
\* and the step raised a request
C34_Witness ==
    /\ engine.step.op = "drain"
    /\ engine.queue # <<>>
    /\ engine.step.requests # <<>>

\* ------------------------------------------------------------------------
\* Eighth specification: the generic finalize callback is given a list of
\* associations, some of which fail validation
\* ------------------------------------------------------------------------

\* Number of associations in the list handed to finalize(asns)
MaxAsns == 3

FinalizeRules == {"Association", "Asn_Lv2MIRLRSFixedSlitNod", "Asn_Lv2Image"}

\* The associations a list is drawn from: as constructed (without a
\* product, which the schema of a Level 2 rule refuses), and as created for
\* an exposure
FinalizeCandidates ==
    { Association(rule, "observation") : rule \in FinalizeRules }
        \cup ({ create(rule, "observation", TRUE, item).asn :
                  rule \in FinalizeRules \ {"Association"}, item \in UncheckedItems }
                 \ {NoAssociation})

InitFinalize ==
    /\ proc = NoProc
    /\ asn = NoAssociation
    /\ short_circuit \in BOOLEAN
    /\ finalized = FALSE
    /\ last = NoCall
    /\ heap = NoHeap
    /\ \E n \in 0..MaxAsns : \E asns \in [1..n -> FinalizeCandidates] :
          engine = [IdleEngine EXCEPT !.asns = asns]

\* Line 605, the list comprehension: asn.finalize() on every association,
\* in list order, each result kept with the association it came from
finalize_each(asns) == [ k \in 1..Len(asns) |-> [self |-> asns[k], ret |-> finalize(asns[k])] ]

\* lambda asn: asn is not None
is_not_None(result) == result.ret.value # None

\* The entry a result is in the returned list: the list [self]
entry_of(results) == [ k \in 1..Len(results) |-> <<results[k].self>> ]

\* Mutant of generic_finalize: the results are returned unfiltered
generic_finalize_Unfiltered(asns) ==
    [ called |-> [ k \in 1..Len(asns) |-> k ],
      ret |-> Return(entry_of(finalize_each(asns)), NoPayload,
                     UNION { finalize_each(asns)[k].ret.warnings : k \in 1..Len(asns) }) ]

\* finalize(asns), lines 580-606: the calls it makes, by position in the
\* list, and the list it returns
generic_finalize(asns) ==
    [ called |-> [ k \in 1..Len(asns) |-> k ],
      ret |-> IF \E k \in 1..Len(asns) : finalize_each(asns)[k].ret.kind = "raise"
              THEN Raise("AssociationNotValidError", {})
              ELSE Return(entry_of(SelectSeq(finalize_each(asns), is_not_None)), NoPayload,
                          UNION { finalize_each(asns)[k].ret.warnings : k \in 1..Len(asns) }) ]

\* finalize(asns) on the associations of the list
GenericFinalize ==
    /\ last.op = "none"
    /\ last' = Call("finalize(asns)", None, 0, None, None, FALSE, NoPayload,
                    generic_finalize(engine.asns).ret, FALSE, FALSE,
                    generic_finalize(engine.asns).called)
    /\ UNCHANGED <<asn, short_circuit, finalized, engine, heap, proc>>

NextFinalize == GenericFinalize

SpecFinalize == InitFinalize /\ [][NextFinalize]_vars

\* ------------------------------------------------------------------------
\* C35: the generic finalize(asns) calls finalize once on every association
\* of the list, in list order, and returns the results that are not None in
\* that order; an association that fails validation contributes no entry
\* and raises nothing.
\* ------------------------------------------------------------------------

\* The positions of the list whose association passes validation
ValidAt(asns) == { k \in 1..Len(asns) : Valid(asns[k]) }

\* The j-th smallest element of a set of positions
Nth(S, j) == CHOOSE k \in S : Cardinality({ i \in S : i < k }) = j - 1

RaisedRequests ==
    { [ProcessList(item, work_over) EXCEPT !.trigger_rules = triggers,
                                           !.rules_is_none = rules = <<>>,
                                           !.rules = rules] :
        item \in UncheckedItems, work_over \in Categories,
        triggers \in SUBSET SharedRules, rules \in {<<>>, <<"Asn_Lv2Image">>} }

\* What lines 414-418 are to make of a request for an association of rule
ClaimedBy(rule, before, after) ==
    /\ after.trigger_rules = before.trigger_rules \cup {rule}
    /\ after.rules = IF before.rules_is_none THEN <<rule>> ELSE before.rules
    /\ ~after.rules_is_none
    /\ RequestKey(after) = RequestKey(before)

\* Every request a constraint may raise leaves lines 414-418 claimed by the
\* association's rule
ClaimsEveryRequest ==
    asn.rule # None =>
        \A request \in RaisedRequests :
            /\ Len(SetTriggerRules(asn, <<request>>)) = 1
            /\ ClaimedBy(asn.rule, request, SetTriggerRules(asn, <<request>>)[1])

\* Every request add returned, for an item that matched and for one that did
\* not, names the rule of the association and no other
ReturnedAreClaimed ==
    (last.op \in {"add", "create"} /\ last.ret.kind = "return") =>
        \A k \in 1..Len(last.ret.reprocess) :
            /\ last.ret.reprocess[k].trigger_rules = {last.rule}
            /\ last.ret.reprocess[k].rules = <<last.rule>>
            /\ ~last.ret.reprocess[k].rules_is_none

C36_RequestsNameTheirRule == ClaimsEveryRequest /\ ReturnedAreClaimed

\* add returned a request for an item its constraint check did not match
C36_Witness ==
    /\ last.op = "add"
    /\ last.evaluated
    /\ ~last.verdict
    /\ last.ret.reprocess # <<>>

\* ------------------------------------------------------------------------
\* C37: add merges the item and clears the init-hook flag exactly when the
\* constraint check matched (or check_constraints is False); the force_match
\* override changes only the boolean that add returns, never whether the
\* item was merged.
\* ------------------------------------------------------------------------

\* The step is an add of an item that was not a member
OfferedNew == last'.op = "add" /\ last'.item \notin asn.from_items

\* The item is a member afterwards exactly when the tree matched it or was
\* not asked; then the init-hook flag is cleared, otherwise the association
\* is as it was
MergedOnVerdict ==
    /\ (last'.item \in asn'.from_items) <=> (last'.verdict \/ ~last'.flag)
    /\ last'.item \in asn'.from_items =>
          /\ ~asn'.run_init_hook
          /\ asn'.from_items = asn.from_items \cup {last'.item}
          /\ Len(Members(asn')) = Len(Members(asn)) + 1
    /\ last'.item \notin asn'.from_items => AsnState(asn') = AsnState(asn)

\* The boolean returned is the tree's verdict unless the force_match node is
\* bound, and then it is the value of that node
ReturnedIsOverride ==
    (last'.flag /\ last'.ret.kind = "return") =>
        last'.ret.match = IF force_match_value(asn') # None
                          THEN force_match_value(asn') = "True"
                          ELSE last'.verdict

C37_MergedOnVerdict == [][OfferedNew => (MergedOnVerdict /\ ReturnedIsOverride)]_vars

\* The tree matched a background nod and add merged it, and returned False
\* through force_match
C37_Witness ==
    /\ last.op = "add"
    /\ last.flag
    /\ last.verdict
    /\ ~last.ret.match
    /\ last.item \in asn.from_items
    /\ ~asn.run_init_hook

\* ------------------------------------------------------------------------
\* Ninth specification: the script set_telescope_pointing works through the
\* exposures of its command line
\* ------------------------------------------------------------------------

\* Number of exposures on the command line
MaxExposures == 3

\* The file names the command line is drawn from
Filenames == {"jw_a_uncal.fits", "dir/jw_b_uncal.fits"}

\* What a call of stp.add_wcs may end with: it returns (None), or raises
Outcomes == {None, "TypeError", "ValueError", "UnicodeDecodeError", "OSError"}

\* Mutant of Caught: every exception is caught
Caught_Any(exc) == TRUE

\* Line 165: except (TypeError, ValueError), which takes the exceptions of
\* these classes and of the classes derived from them (UnicodeDecodeError is
\* a ValueError)
Caught(exc) == exc \in {"TypeError", "ValueError", "UnicodeDecodeError"}

\* Lines 143-146: the path the transforms are saved to, if they are saved:
\* Path(filename).with_name(f"{path.stem}_transforms.asdf")
transform_path(save_transforms, filename) ==
    IF ~save_transforms
    THEN None
    ELSE IF filename = "dir/jw_b_uncal.fits"
    THEN "dir/jw_b_uncal_transforms.asdf"
    ELSE "jw_a_uncal_transforms.asdf"

\* main() after parse_args, before the loop of line 137: i is the position
\* of the exposure the loop takes next, calls the calls of stp.add_wcs made
\* and what each ended with, log the messages handed to the logger
InitPointing ==
    /\ asn = NoAssociation
    /\ short_circuit = TRUE
    /\ finalized = FALSE
    /\ last = NoCall
    /\ engine = IdleEngine
    /\ heap = NoHeap
    /\ \E n \in 1..MaxExposures : \E exposure \in [1..n -> Filenames] :
          \E save_transforms \in BOOLEAN :
              proc = [status |-> "running", exposure |-> exposure,
                      save_transforms |-> save_transforms, i |-> 1, calls |-> <<>>,
                      log |-> <<>>, exc |-> None]

\* Lines 148-167 once stp.add_wcs ended with outcome: the warning of the
\* except clause, or the exception leaving main
after_add_wcs(p, filename, outcome) ==
    IF outcome = None
    THEN [p EXCEPT !.i = @ + 1]
    ELSE IF Caught(outcome)
    THEN [p EXCEPT !.i = @ + 1, !.log = Append(@, [level |-> "warning", filename |-> filename])]
    ELSE [p EXCEPT !.status = "raised", !.exc = outcome]

\* Lines 137-164: the messages of the iteration and the call of stp.add_wcs
call_add_wcs(p, filename, outcome) ==
    after_add_wcs([p EXCEPT !.log = Append(@, [level |-> "info", filename |-> filename]),
                            !.calls = Append(@, [filename |-> filename,
                                                 save_transforms |->
                                                     transform_path(p.save_transforms, filename),
                                                 outcome |-> outcome])],
                  filename, outcome)

\* One iteration of the loop of line 137
Iterate(outcome) ==
    /\ proc.status = "running"
    /\ proc.i <= Len(proc.exposure)
    /\ proc' = call_add_wcs(proc, proc.exposure[proc.i], outcome)
    /\ UNCHANGED <<asn, short_circuit, finalized, last, engine, heap>>

\* The loop has run out of exposures: main returns
Return_main ==
    /\ proc.status = "running"
    /\ proc.i > Len(proc.exposure)
    /\ proc' = [proc EXCEPT !.status = "returned"]
    /\ UNCHANGED <<asn, short_circuit, finalized, last, engine, heap>>

NextPointing ==
    \/ \E outcome \in Outcomes : Iterate(outcome)
    \/ Return_main

SpecPointing == InitPointing /\ [][NextPointing]_vars

\* ------------------------------------------------------------------------
\* C38: the main loop of set_telescope_pointing calls add_wcs for the
\* exposures in command-line order, once each; a TypeError or ValueError
\* raised for one exposure is logged as a warning and the remaining
\* exposures are still processed, while any other exception ends the run
\* before the remaining exposures are processed.
\* ------------------------------------------------------------------------

\* The positions of the calls that raised a TypeError or a ValueError
RaisedPointingError ==
    { k \in 1..Len(proc.calls) :
        proc.calls[k].outcome \in {"TypeError", "ValueError", "UnicodeDecodeError"} }

\* The positions of the calls that raised anything else
RaisedOther ==
    { k \in 1..Len(proc.calls) :
        proc.calls[k].outcome \notin {None, "TypeError", "ValueError", "UnicodeDecodeError"} }

\* The warnings of the log, in order
Warnings == SelectSeq(proc.log, LAMBDA r : r.level = "warning")

\* The calls made are for the exposures of the command line, in order, one
\* for each position
CalledInOrder ==
    /\ Len(proc.calls) <= Len(proc.exposure)
    /\ \A k \in 1..Len(proc.calls) : proc.calls[k].filename = proc.exposure[k]

\* There is one warning for each call that raised a TypeError or a
\* ValueError, in the order of the calls, and such a call is never the end of
\* the run
WarnedAndWentOn ==
    /\ Len(Warnings) = Cardinality(RaisedPointingError)
    /\ \A j \in 1..Len(Warnings) :
          Warnings[j].filename = proc.exposure[Nth(RaisedPointingError, j)]
    /\ \A k \in RaisedPointingError :
          /\ proc.status \in {"running", "returned"} \/ k < Len(proc.calls)
          /\ proc.status = "returned" => Len(proc.calls) = Len(proc.exposure)

\* Another exception is the last thing the run did: it left main, and the
\* exposures after it were not processed
OtherEndsRun ==
    /\ \A k \in RaisedOther :
          /\ k = Len(proc.calls)
          /\ proc.status = "raised"
          /\ proc.exc = proc.calls[k].outcome
    /\ proc.status = "raised" => RaisedOther # {}
    /\ proc.status = "returned" => (RaisedOther = {} /\ Len(proc.calls) = Len(proc.exposure))
    /\ proc.status = "running" => Len(proc.calls) = proc.i - 1

C38_PointingLoop ==
    proc.status # "none" => (CalledInOrder /\ WarnedAndWentOn /\ OtherEndsRun)

\* A run that logged a warning for its first exposure, processed the second
\* and was ended by the third
C38_Witness ==
    /\ proc.status = "raised"
    /\ Len(proc.exposure) = 3
    /\ Len(proc.calls) = 3
    /\ proc.calls[1].outcome = "ValueError"
    /\ proc.calls[2].outcome = None
    /\ Len(Warnings) = 1

\* ------------------------------------------------------------------------
\* Tenth specification: get_product_names is given a list of associations
\* ------------------------------------------------------------------------

\* Number of associations in the list handed to get_product_names
MaxNames == 3

\* Association a with the products of b after its own
WithProductsOf(a, b) == [a EXCEPT !.data.products = @ \o b.data.products]

\* The associations a list is drawn from: associations created for an
\* exposure, each with one product, and those of Asn_Lv2MIRLRSFixedSlitNod
\* carrying the product of another as their second
NameCandidates ==
    (FinalizeCandidates \ { Association(rule, "observation") : rule \in FinalizeRules })
        \cup { WithProductsOf(create("Asn_Lv2MIRLRSFixedSlitNod", "observation", TRUE, a).asn,
                              create("Asn_Lv2MIRLRSFixedSlitNod", "observation", TRUE, b).asn) :
                 a \in { i \in UncheckedItems : i.id = 1 },
                 b \in { i \in UncheckedItems : i.id = 2 } }

InitNames ==
    /\ asn = NoAssociation
    /\ short_circuit = TRUE
    /\ finalized = FALSE
    /\ last = NoCall
    /\ engine = IdleEngine
    /\ heap = NoHeap
    /\ \E n \in 0..MaxNames : \E asns \in [1..n -> NameCandidates] :
          proc = [status |-> "called", asns |-> asns]

\* Mutant of product_names: the name of the last product of every association
product_names_LastProduct(asns) ==
    [ k \in 1..Len(asns) |-> asns[k].data.products[Len(asns[k].data.products)].name ]

\* Line 50: the name of the first product of every association, in list order
product_names(asns) == [ k \in 1..Len(asns) |-> asns[k].data.products[1].name ]

\* Line 52: Counter(product_names).items() holds every name once, in the
\* order of first occurrence, with the number of its occurrences; dups are
\* the names that occur more than once
duplicates(names) ==
    LET first == { k \in 1..Len(names) : \A j \in 1..(k - 1) : names[j] # names[k] }
        count(name) == Cardinality({ k \in 1..Len(names) : names[k] = name })
        items == [ j \in 1..Cardinality(first) |-> names[Nth(first, j)] ]
    IN  SelectSeq(items, LAMBDA name : count(name) > 1)

\* get_product_names(asns), lines 50-56: the set of names, the list of
\* duplicates, and the debug message logged when there are duplicates
get_product_names(asns) ==
    [ status |-> "returned",
      asns |-> asns,
      product_names |-> { product_names(asns)[k] : k \in 1..Len(asns) },
      dups |-> duplicates(product_names(asns)),
      log |-> IF duplicates(product_names(asns)) # <<>>
              THEN <<[level |-> "debug", dups |-> duplicates(product_names(asns))]>>
              ELSE <<>> ]

GetProductNames ==
    /\ proc.status = "called"
    /\ proc' = get_product_names(proc.asns)
    /\ UNCHANGED <<asn, short_circuit, finalized, last, engine, heap>>

NextNames == GetProductNames

SpecNames == InitNames /\ [][NextNames]_vars

\* ------------------------------------------------------------------------
\* C39: get_product_names returns the set of the first product's name over
\* all given associations and the list of the names that occur in more than
\* one association, each duplicated name listed once; the list is empty if
\* and only if all names are distinct, and every duplicate is an element of
\* the returned set.
\* ------------------------------------------------------------------------

\* The name of the first product of the k-th association handed in
FirstName(k) == proc.asns[k].data.products[1].name

\* The positions of the list whose first product is called name
Named(name) == { k \in 1..Len(proc.asns) : FirstName(k) = name }

C39_NamesAndDuplicates ==
    proc.status = "returned" =>
        /\ proc.product_names = { FirstName(k) : k \in 1..Len(proc.asns) }
        /\ \A k \in 1..Len(proc.asns) :
              (\E j \in 1..Len(proc.dups) : proc.dups[j] = FirstName(k))
                  <=> Cardinality(Named(FirstName(k))) > 1
        /\ \A i, j \in 1..Len(proc.dups) : proc.dups[i] = proc.dups[j] => i = j
        /\ (proc.dups = <<>>) <=> (Cardinality(proc.product_names) = Len(proc.asns))
        /\ \A j \in 1..Len(proc.dups) : proc.dups[j] \in proc.product_names

\* The call returned one duplicate for a list in which one name is the first
\* product of two associations and another name is the first product of one
\* association and the second product of another
C39_Witness ==
    /\ proc.status = "returned"
    /\ Len(proc.dups) = 1
    /\ Cardinality(proc.product_names) = 2
    /\ \E k, j \in 1..Len(proc.asns) :
          /\ Len(proc.asns[k].data.products) = 2
          /\ proc.asns[k].data.products[2].name = FirstName(j)
          /\ FirstName(j) # FirstName(k)
          /\ Cardinality(Named(FirstName(j))) = 1

====
